---- MODULE Spec2Model ----
(***************************************************************************)
(* Model of the code-sync sidecar (code-sync-sidecar/file_syncer.go and    *)
(* its main): the FileSyncer run loop, its message loop, the handling of   *)
(* one PUSH_REQUEST and Stop(), as goroutines that interleave.             *)
(*                                                                         *)
(* Goroutines: "run" (FileSyncer.run, started by NewFileSyncer) and "main" *)
(* (the caller of Stop(): main after <-ctx.Done(), or a test calling       *)
(* rw.Stop() directly).  The signal-handler goroutine of main is the       *)
(* Cancel action.                                                          *)
(***************************************************************************)
EXTENDS Integers, Sequences, FiniteSets, TLC

\* Bounds of the model.
MaxConns == 2   \* connection objects that can be alive at once
MaxPushes == 2  \* PUSH_REQUEST frames with a payload in one behaviour
MaxKeys == 2    \* names an environment_variables map can hold
MaxLen == 3     \* characters of an environment value given to escapeEnvValue
MaxHups == 2    \* SIGHUPs sent to the launcher in one behaviour
MaxTerms == 1   \* SIGTERMs or SIGINTs sent to the launcher in one behaviour
MaxArgs == 2    \* words of the command given to the launcher
MaxSegs == 2    \* segments of the base path of BIFROST_API_URL
MaxEditors == 2 \* editor connections of the router
MaxSidecars == 2 \* sidecar connections the router accepts
MaxRouted == 2  \* pushes the router routes

VARIABLES
    ctxDone,      \* the context given to NewFileSyncer is cancelled
    done,         \* rw.done is closed
    fault,        \* "none", or the runtime panic that ended the process
    conn,         \* rw.conn: 0 is nil, otherwise the id of a dialled connection
    open,         \* ids of the connections not yet closed on the sidecar side
    runPc,        \* position of the run goroutine
    stopPc,       \* position of each caller inside Stop()
    pushes,       \* PUSH_REQUEST frames with a payload received so far
    cur,          \* the PushRequest being handled, with what its handling did, kept
                  \* until the message loop starts its next iteration
    wire,         \* push_id and status of the PushResponses handed to
                  \* conn.WriteMessage, in order
    lastMsg,      \* the last PushResponse handed to conn.WriteMessage for cur, in full
    rsyncRunning, \* push ids whose rsync command is running
    tempFiles,    \* temporary batch files present in .sidecar
    pushIdFile,   \* content of .launcher/push_id (0: never written)
    volume,       \* push ids whose batch has been applied to the shared volume
    dbEnvFile,    \* .sidecar/env.sh has been written by a database refresh
    \* EnvironmentManager (environment.go)
    envFile,      \* the Environment File .sidecar/.env: exists, and its lines
    envTmp,       \* the temporary file .sidecar/.env.tmp: exists, and its lines
    emPc,         \* position inside UpdateFromPush
    emMap,        \* the envVariables argument of the running (or last) call
    emPrev,       \* the Environment File as it was when that call began
    emErr,        \* the error the last call returned ("" for nil)
    \* escapeEnvValue and the shell that sources its output
    escValue,     \* the environment value
    escText,      \* the text escapeEnvValue made of it
    escRead,      \* what the shell reads from export KEY=<text>
    escPc,        \* "value", "escaped", "sourced"
    \* the launcher (launcher-script/rsync-launcher.sh)
    dirs,         \* the control directories that exist under the shared volume
    launcherPid,  \* .launcher/launcher.pid has been written
    trapsSet,     \* the HUP and the TERM/INT traps are installed
    launcherUp,   \* the launcher shell is running
    stack,        \* the shell's control: the main program, and on top of it
                  \* the trap actions that interrupted it, innermost last
    hupPending,   \* a SIGHUP has arrived and its trap action has not begun
    hups,         \* SIGHUPs sent to the launcher so far
    termPending,  \* a SIGTERM or SIGINT has arrived and its trap action has not begun
    terms,        \* SIGTERMs and SIGINTs sent to the launcher so far
    appPidFile,   \* content of .sidecar/app.pid (0: no file)
    appPgidFile,  \* content of .sidecar/app-pgid.pid (0: no file)
    apps,         \* the process groups of launched instances that are alive
    pgid,         \* the shell variable pgid of kill_process_tree (global)
    appCmd,       \* the words of the command the last instance was started with
    pushIdEnv,    \* BIFROST_PUSH_ID in the launcher shell (0: unset)
    shellEnv,     \* the export lines the launcher shell has sourced
    answering,    \* push id of the SIGHUP whose trap action began last (0: none)
    hupPush,      \* push id of the last SIGHUP, if it was sent after the batch of
                  \* that push (0: none yet, or sent by the database refresh)
    \* buildWebSocketURL
    urlParts,     \* the components rw.apiURL is written from, rw.appID, rw.deploymentID
    wsURL,        \* the string buildWebSocketURL returned (<<>>: not called yet)
    \* the connection router
    registry,     \* the registered sidecar connections: pairs <<route key, connection>>
    sidecarOpen,  \* the sidecar connections that are open
    accepted,     \* sidecar connections accepted so far
    tracking,     \* push_id -> originating editor connection: pairs <<push_id, editor>>
    forwarding,   \* pushes looked up and not yet written to the sidecar
                  \* connection: pairs <<connection, push_id>>
    sidecarQueue, \* pushes delivered to a sidecar and not answered: pairs
                  \* <<connection, push_id>>
    editorInbox,  \* the PushResponses delivered to editor connections
    origin        \* for every push_id routed so far, its editor and its route key

sidecarVars == <<ctxDone, done, fault, conn, open, runPc, stopPc, pushes, cur,
                 wire, lastMsg, rsyncRunning, tempFiles, pushIdFile, volume, dbEnvFile>>

envVars == <<envFile, envTmp, emPc, emMap, emPrev, emErr>>

escVars == <<escValue, escText, escRead, escPc>>

launcherVars == <<dirs, launcherPid, trapsSet, launcherUp, stack, hupPending, hups,
                  termPending, terms, appPidFile, appPgidFile, apps, pgid, appCmd>>

urlVars == <<urlParts, wsURL>>

routerVars == <<registry, sidecarOpen, accepted, tracking, forwarding, sidecarQueue,
                editorInbox, origin>>

\* What an instance is started with, and the push a restart answers.
instanceVars == <<pushIdEnv, shellEnv, answering, hupPush>>

vars == <<sidecarVars, envVars, escVars, launcherVars, urlVars, routerVars, instanceVars>>

\* What the steps of the sidecar's goroutines leave alone: handlePushRequest
\* makes no call to the EnvironmentManager.
notSidecar == <<envVars, escVars, launcherVars, urlVars, routerVars, instanceVars>>

connVars == <<conn, open>>
pushVars == <<pushes, cur, wire, lastMsg, rsyncRunning, tempFiles, pushIdFile, volume, dbEnvFile>>

Callers == {"main", "run"}

\* No PushRequest is being handled.
NoPush ==
    [id |-> 0, nilPayload |-> FALSE, db |-> FALSE, batch |-> FALSE,
     env |-> FALSE, dbErr |-> "", signals |-> 0, responses |-> 0, applyErr |-> "",
     written |-> FALSE, signalErr |-> "", returned |-> "nil"]

\* A PushRequest as handlePushRequest receives it. env says that the frame
\* carries a non-empty environment_variables map (field 9 of PushMessage in the
\* sender's schema): handlePushRequest reads push_id, batch_file and
\* database_branch_updates only.
NewPush(id, nilPayload, db, batch, env) ==
    [NoPush EXCEPT !.id = id, !.nilPayload = nilPayload, !.db = db,
                   !.batch = batch, !.env = env, !.returned = "running"]

\* Mutant of buildPushResponse: the push_id of the request is not echoed.
buildPushResponse_noEcho(pushID, status, errorMessage) ==
    [push_id |-> 0, status |-> status, error_message |-> errorMessage]

\* buildPushResponse: the envelope of a PushResponse. error_message is <<>>
\* for the empty string, otherwise <<prefix, cause>> for fmt.Sprintf(prefix, err).
buildPushResponse(pushID, status, errorMessage) ==
    [push_id |-> pushID, status |-> status, error_message |-> errorMessage]

\* Nothing has been written to the connection for the request in cur.
NoMessage == buildPushResponse(0, "UNKNOWN", <<>>)

\* sendProtoMessage: marshal and hand to rw.conn.WriteMessage; a write error is
\* only logged.
sendProtoMessage(msg) ==
    /\ wire' = Append(wire, [push_id |-> msg.push_id, status |-> msg.status])
    /\ lastMsg' = msg

\* A file of the control directory: whether it exists, and its lines.
NoFile == [exists |-> FALSE, lines |-> <<>>]

\* The EnvironmentManager after NewEnvironmentManager: no file written, no
\* call made.
EnvInit ==
    /\ envFile = NoFile
    /\ envTmp = NoFile
    /\ emPc = "idle"
    /\ emMap = <<>>
    /\ emPrev = NoFile
    /\ emErr = ""

\* The sidecar after NewFileSyncer.
SidecarInit ==
    /\ ctxDone = FALSE
    /\ done = FALSE
    /\ fault = "none"
    /\ conn = 0
    /\ open = {}
    /\ runPc = "select"
    /\ stopPc = [c \in Callers |-> "idle"]
    /\ pushes = 0
    /\ cur = NoPush
    /\ wire = <<>>
    /\ lastMsg = NoMessage
    /\ rsyncRunning = {}
    /\ tempFiles = 0
    /\ pushIdFile = 0
    /\ volume = {}
    /\ dbEnvFile = FALSE

\* No value is being escaped.
EscapeIdle ==
    /\ escValue = <<>>
    /\ escText = <<>>
    /\ escRead = <<>>
    /\ escPc = "value"

\* One level of the launcher shell's control: the code it runs (ctx: "main"
\* the script, "hup" the action of the HUP trap, "term" that of the TERM/INT
\* trap), its position, whether update_files has been called on the way to
\* its start_app, whether the status of that call is 1 (until the next
\* command replaces it), and its positional parameters.
Frame(ctx, pc, promoted, failed, args) ==
    [ctx |-> ctx, pc |-> pc, promoted |-> promoted, failed |-> failed, args |-> args]

\* The words of the wrapped command, and the command line of the entrypoint:
\* the whole command as one quoted string.
Words == [i \in 1..MaxArgs |-> i]
EntrypointArgs == <<Words>>

\* The launcher script when it has been executed with args: nothing exists yet.
LauncherBegins(args) ==
    /\ dirs = {}
    /\ launcherPid = FALSE
    /\ trapsSet = FALSE
    /\ launcherUp = TRUE
    /\ stack = <<Frame("main", "wait_dirs", FALSE, FALSE, args)>>
    /\ hupPending = FALSE
    /\ hups = 0
    /\ termPending = FALSE
    /\ terms = 0
    /\ appPidFile = 0
    /\ appPgidFile = 0
    /\ apps = {}
    /\ pgid = 0
    /\ appCmd = <<>>
    /\ pushIdEnv = 0
    /\ shellEnv = {}
    /\ answering = 0
    /\ hupPush = 0

LauncherInit == LauncherBegins(EntrypointArgs)

\* The valid values of rw.apiURL by their components (scheme, host, optional
\* port, a base path of at most MaxSegs segments, optional query), with
\* rw.appID and rw.deploymentID.
UrlParts ==
    [scheme : {"http", "https", "HTTPS", "ws"},
     host : {"localhost", "bifrost.example.com"},
     port : {"", "8080"},
     base : UNION {[1..n -> {"basepath"}] : n \in 0..MaxSegs},
     query : {"", "x=1"},
     appID : {"app1"},
     deploymentID : {"deployment1", "d-2"}]

\* buildWebSocketURL has not been called.
UrlIdle ==
    /\ urlParts = [scheme |-> "http", host |-> "localhost", port |-> "8080",
                   base |-> <<>>, query |-> "", appID |-> "app1",
                   deploymentID |-> "deployment1"]
    /\ wsURL = <<>>

\* The router when it starts: nothing registered, nothing routed.
RouterInit ==
    /\ registry = {}
    /\ sidecarOpen = {}
    /\ accepted = 0
    /\ tracking = {}
    /\ forwarding = {}
    /\ sidecarQueue = {}
    /\ editorInbox = {}
    /\ origin = <<>>

Init ==
    /\ SidecarInit /\ EnvInit /\ EscapeIdle /\ LauncherInit
    /\ UrlIdle /\ RouterInit

\* A runtime panic ends the whole process: no goroutine takes another step.
Alive == fault = "none"

----------------------------------------------------------------------------
\* main: the signal goroutine calls cancel().
Cancel ==
    /\ Alive
    /\ UNCHANGED notSidecar
    /\ ~ctxDone
    /\ ctxDone' = TRUE
    /\ UNCHANGED <<done, fault, connVars, runPc, stopPc, pushVars>>

----------------------------------------------------------------------------
\* Stop(), statement by statement, for the caller c.

\* main reaches rsync.Stop() (after <-ctx.Done()), or a test calls rw.Stop().
StopCall ==
    /\ Alive
    /\ UNCHANGED notSidecar
    /\ stopPc["main"] = "idle"
    /\ stopPc' = [stopPc EXCEPT !["main"] = "close_done"]
    /\ UNCHANGED <<ctxDone, done, fault, connVars, runPc, pushVars>>

\* close(rw.done): closing a closed channel panics.
StopCloseDone(c) ==
    /\ Alive
    /\ UNCHANGED notSidecar
    /\ stopPc[c] = "close_done"
    /\ IF done
         THEN /\ fault' = "close of closed channel"
              /\ UNCHANGED <<done, stopPc>>
         ELSE /\ done' = TRUE
              /\ stopPc' = [stopPc EXCEPT ![c] = "check_conn"]
              /\ UNCHANGED fault
    /\ UNCHANGED <<ctxDone, connVars, runPc, pushVars>>

\* What a read of rw.conn by caller c may return. The field is written by the
\* run goroutine and read by Stop with no synchronisation: a caller on another
\* goroutine may still observe the initial nil.
ReadConn(c) == IF c = "run" THEN {conn} ELSE {conn, 0}

\* if rw.conn != nil
StopCheckConn(c) ==
    /\ Alive
    /\ UNCHANGED notSidecar
    /\ stopPc[c] = "check_conn"
    /\ \E seen \in ReadConn(c) :
          stopPc' = [stopPc EXCEPT ![c] = IF seen # 0 THEN "write_close" ELSE "returned"]
    /\ UNCHANGED <<ctxDone, done, fault, connVars, runPc, pushVars>>

\* rw.conn.WriteMessage(websocket.CloseMessage, ...) is called: rw.conn is
\* read again; a method call through a nil *websocket.Conn panics.
StopWriteClose(c) ==
    /\ Alive
    /\ UNCHANGED notSidecar
    /\ stopPc[c] = "write_close"
    /\ IF conn = 0
         THEN /\ fault' = "nil pointer dereference"
              /\ UNCHANGED stopPc
         ELSE /\ stopPc' = [stopPc EXCEPT ![c] = "writing_close"]
              /\ UNCHANGED fault
    /\ UNCHANGED <<ctxDone, done, connVars, runPc, pushVars>>

\* WriteMessage returns to Stop; a write error is logged.
StopWriteCloseEnd(c) ==
    /\ Alive
    /\ UNCHANGED notSidecar
    /\ stopPc[c] = "writing_close"
    /\ stopPc' = [stopPc EXCEPT ![c] = "close_conn"]
    /\ UNCHANGED <<ctxDone, done, fault, connVars, runPc, pushVars>>

\* The run goroutine calls conn.WriteMessage for a PushResponse while the
\* caller of Stop is inside conn.WriteMessage: nothing orders the two calls,
\* and the connection allows one writer at a time. The two frames may both
\* get out (the steps that send them), or the connection panics on the
\* second writer.
ConcurrentWritePanic ==
    /\ Alive
    /\ UNCHANGED notSidecar
    /\ stopPc["main"] = "writing_close"
    /\ runPc \in {"apply", "batch_file", "rsync", "signal", "complete"}
    /\ fault' = "concurrent write to websocket connection"
    /\ UNCHANGED <<ctxDone, done, connVars, runPc, stopPc, pushVars>>

\* rw.conn.Close(): rw.conn is read a third time.
StopCloseConn(c) ==
    /\ Alive
    /\ UNCHANGED notSidecar
    /\ stopPc[c] = "close_conn"
    /\ IF conn = 0
         THEN /\ fault' = "nil pointer dereference"
              /\ UNCHANGED <<stopPc, open>>
         ELSE /\ open' = open \ {conn}
              /\ stopPc' = [stopPc EXCEPT ![c] = "returned"]
              /\ UNCHANGED fault
    /\ UNCHANGED <<ctxDone, done, conn, runPc, pushVars>>

Stop(c) ==
    \/ StopCloseDone(c)
    \/ StopCheckConn(c)
    \/ StopWriteClose(c)
    \/ StopWriteCloseEnd(c)
    \/ StopCloseConn(c)

----------------------------------------------------------------------------
\* FileSyncer.run

\* A Go select over ctx.Done() and rw.done with a default: a ready case is
\* taken (either one when both are ready), the default only when none is.
\* On ctx.Done() the run loop calls rw.Stop() and returns, on rw.done it
\* returns, and the default goes on at pc.
SelectStop(pc) ==
    \/ /\ ctxDone
       /\ runPc' = "in_stop"
       /\ stopPc' = [stopPc EXCEPT !["run"] = "close_done"]
    \/ /\ done
       /\ runPc' = "returned"
       /\ UNCHANGED stopPc
    \/ /\ ~ctxDone /\ ~done
       /\ runPc' = pc
       /\ UNCHANGED stopPc

\* The select at the top of the for loop; its default case starts the dial.
RunSelect ==
    /\ Alive
    /\ UNCHANGED notSidecar
    /\ runPc = "select"
    /\ SelectStop("dialing")
    /\ UNCHANGED <<ctxDone, done, fault, connVars, pushVars>>

\* The connection object a successful dial returns: one that is not alive
\* (the id of a closed connection stands for a new object).
FreeConns == (1..MaxConns) \ open
NewConn == CHOOSE id \in FreeConns : \A other \in FreeConns : id <= other

\* websocket.DefaultDialer.Dial succeeds: rw.conn = conn, then messageLoop.
DialOk ==
    /\ Alive
    /\ UNCHANGED notSidecar
    /\ runPc = "dialing"
    /\ FreeConns # {}
    /\ conn' = NewConn
    /\ open' = open \cup {NewConn}
    /\ runPc' = "ml_select"
    /\ UNCHANGED <<ctxDone, done, fault, stopPc, pushVars>>

\* Dial fails: log, then time.Sleep(5 * time.Second).
DialFail ==
    /\ Alive
    /\ UNCHANGED notSidecar
    /\ runPc = "dialing"
    /\ runPc' = "sleep_dial"
    /\ UNCHANGED <<ctxDone, done, fault, connVars, stopPc, pushVars>>

\* Mutant of SleepDial: the retry dials again without passing the select.
SleepDial_retryWithoutSelect ==
    /\ Alive
    /\ UNCHANGED notSidecar
    /\ runPc = "sleep_dial"
    /\ runPc' = "dialing"
    /\ UNCHANGED <<ctxDone, done, fault, connVars, stopPc, pushVars>>

\* The sleep after a failed dial ends: continue, back to the top select.
SleepDial ==
    /\ Alive
    /\ UNCHANGED notSidecar
    /\ runPc = "sleep_dial"
    /\ runPc' = "select"
    /\ UNCHANGED <<ctxDone, done, fault, connVars, stopPc, pushVars>>

\* Mutant of RunCloseConn: the connection is dropped without being closed.
RunCloseConn_noClose ==
    /\ Alive
    /\ UNCHANGED notSidecar
    /\ runPc = "close_conn"
    /\ runPc' = "clear_conn"
    /\ UNCHANGED <<ctxDone, done, fault, connVars, stopPc, pushVars>>

\* rw.conn.Close() after messageLoop returned.
RunCloseConn ==
    /\ Alive
    /\ UNCHANGED notSidecar
    /\ runPc = "close_conn"
    /\ open' = open \ {conn}
    /\ runPc' = "clear_conn"
    /\ UNCHANGED <<ctxDone, done, fault, conn, stopPc, pushVars>>

\* rw.conn = nil
RunClearConn ==
    /\ Alive
    /\ UNCHANGED notSidecar
    /\ runPc = "clear_conn"
    /\ conn' = 0
    /\ runPc' = "post_select"
    /\ UNCHANGED <<ctxDone, done, fault, open, stopPc, pushVars>>

\* The select after the connection was lost; its default case sleeps.
RunPostSelect ==
    /\ Alive
    /\ UNCHANGED notSidecar
    /\ runPc = "post_select"
    /\ SelectStop("sleep_lost")
    /\ UNCHANGED <<ctxDone, done, fault, connVars, pushVars>>

\* The sleep after a lost connection ends: next iteration of the for loop.
SleepLost ==
    /\ Alive
    /\ UNCHANGED notSidecar
    /\ runPc = "sleep_lost"
    /\ runPc' = "select"
    /\ UNCHANGED <<ctxDone, done, fault, connVars, stopPc, pushVars>>

\* The run loop's own rw.Stop() returned: return.
RunReturn ==
    /\ Alive
    /\ UNCHANGED notSidecar
    /\ runPc = "in_stop"
    /\ stopPc["run"] = "returned"
    /\ runPc' = "returned"
    /\ UNCHANGED <<ctxDone, done, fault, connVars, stopPc, pushVars>>

----------------------------------------------------------------------------
\* FileSyncer.messageLoop

\* The select of messageLoop: a ready case returns an error, the default
\* sets the read deadline and calls ReadMessage. The locals of the
\* handleMessage call of the previous iteration are gone by now.
MessageLoopSelect ==
    /\ Alive
    /\ UNCHANGED notSidecar
    /\ runPc = "ml_select"
    /\ runPc' = IF ctxDone \/ done THEN "close_conn" ELSE "reading"
    /\ cur' = NoPush
    /\ lastMsg' = NoMessage
    /\ UNCHANGED <<ctxDone, done, fault, connVars, stopPc, pushes, wire,
                   rsyncRunning, tempFiles, pushIdFile, volume, dbEnvFile>>

\* The errors ReadMessage can return: on a connection closed on this side only
\* the closed-connection error; otherwise the read deadline (90s), a close
\* frame with an unexpected code, a normal or going-away close, any other.
ReadErrors ==
    IF conn \in open THEN {"timeout", "unexpected close", "normal close", "other"}
                     ELSE {"use of closed connection"}

\* Mutant of ReadError: a read error ends the run loop.
ReadError_fatal ==
    /\ Alive
    /\ UNCHANGED notSidecar
    /\ runPc = "reading"
    /\ \E e \in ReadErrors : runPc' = "returned"
    /\ UNCHANGED <<ctxDone, done, fault, connVars, stopPc, pushVars>>

\* ReadMessage returns an error: messageLoop returns it, whatever its kind.
ReadError ==
    /\ Alive
    /\ UNCHANGED notSidecar
    /\ runPc = "reading"
    /\ \E e \in ReadErrors : runPc' = "close_conn"
    /\ UNCHANGED <<ctxDone, done, fault, connVars, stopPc, pushVars>>

----------------------------------------------------------------------------
\* FileSyncer.handleMessage and FileSyncer.handlePushRequest

\* The frames ReadMessage can return that are not a PUSH_REQUEST with a
\* payload: a non-binary message (logged), a binary message that does not
\* unmarshal, an envelope of another message type, a PUSH_REQUEST whose
\* push_message is nil (each of the last three makes handleMessage return an
\* error, which messageLoop logs).
OtherFrames == {"non-binary", "undecodable", "other type"}

\* Mutant of AfterDatabaseUpdates: a push without a batch signals the launcher.
AfterDatabaseUpdates_alwaysSignal(push) == IF push.batch THEN "apply" ELSE "signal"

\* Where handlePushRequest goes once the database branch updates are dealt
\* with, whether they failed or not: len(batchData) > 0 selects the code path.
AfterDatabaseUpdates(push) == IF push.batch THEN "apply" ELSE "complete"

\* Mutant of ReadOtherFrame: a rejected frame ends the message loop.
ReadOtherFrame_endsLoop ==
    /\ Alive
    /\ UNCHANGED notSidecar
    /\ runPc = "reading"
    /\ conn \in open
    /\ \E f \in OtherFrames :
         /\ cur' = [NoPush EXCEPT !.returned = IF f = "non-binary" THEN "nil" ELSE "error"]
         /\ runPc' = IF f = "non-binary" THEN "ml_select" ELSE "close_conn"
    /\ UNCHANGED <<ctxDone, done, fault, connVars, stopPc, pushes, wire, lastMsg,
                   rsyncRunning, tempFiles, pushIdFile, volume, dbEnvFile>>

\* ReadMessage returns a frame that handleMessage rejects (it returns an
\* error, which messageLoop logs) or ignores (a non-binary message: nil); the
\* message loop goes on with its next iteration.
ReadOtherFrame ==
    /\ Alive
    /\ UNCHANGED notSidecar
    /\ runPc = "reading"
    /\ conn \in open
    /\ \E f \in OtherFrames :
         cur' = [NoPush EXCEPT !.returned = IF f = "non-binary" THEN "nil" ELSE "error"]
    /\ runPc' = "ml_select"
    /\ UNCHANGED <<ctxDone, done, fault, connVars, stopPc, pushes, wire, lastMsg,
                   rsyncRunning, tempFiles, pushIdFile, volume, dbEnvFile>>

\* A PUSH_REQUEST whose payload is nil: handlePushRequest returns an error
\* at once.
ReadNilPush ==
    /\ Alive
    /\ UNCHANGED notSidecar
    /\ runPc = "reading"
    /\ conn \in open
    /\ cur' = [NewPush(0, TRUE, FALSE, FALSE, FALSE) EXCEPT !.returned = "error"]
    /\ runPc' = "ml_select"
    /\ UNCHANGED <<ctxDone, done, fault, connVars, stopPc, pushes, wire, lastMsg,
                   rsyncRunning, tempFiles, pushIdFile, volume, dbEnvFile>>

\* ReadMessage returns a PUSH_REQUEST with a payload: handleMessage calls
\* handlePushRequest, which reads push_id and batch_file and looks at
\* database_branch_updates. The sender gives every push a fresh push_id.
ReadPushRequest ==
    /\ Alive
    /\ UNCHANGED notSidecar
    /\ runPc = "reading"
    /\ conn \in open
    /\ pushes < MaxPushes
    /\ \E db \in BOOLEAN, batch \in BOOLEAN, env \in BOOLEAN :
         LET push == NewPush(pushes + 1, FALSE, db, batch, env) IN
           /\ cur' = push
           /\ runPc' = IF db THEN "database" ELSE AfterDatabaseUpdates(push)
    /\ pushes' = pushes + 1
    /\ UNCHANGED <<ctxDone, done, fault, connVars, stopPc, wire, lastMsg,
                   rsyncRunning, tempFiles, pushIdFile, volume, dbEnvFile>>

\* writeDatabaseEnvFile: the fetch or the file creation fails, the provider
\* lists no database (no file is written), or env.sh is rewritten.
DatabaseEnvOutcomes == {"failed", "no databases", "written"}

\* sendSignalToLauncher: read .launcher/launcher.pid, find the process, send
\* SIGHUP. "ok" delivers the signal; the others are its failures.
SignalOutcomes == {"ok", "pid file", "find process", "signal"}

\* The number of SIGHUPs the launcher receives from one sendSignalToLauncher.
sendSignalToLauncher(outcome) == IF outcome = "ok" THEN 1 ELSE 0

\* Mutant of processDatabaseBranchUpdates: its error fails the push.
processDatabaseBranchUpdates_fatal ==
    /\ Alive
    /\ UNCHANGED notSidecar
    /\ runPc = "database"
    /\ \E e \in DatabaseEnvOutcomes :
         IF e = "failed"
           THEN /\ sendProtoMessage(buildPushResponse(cur.id, "FAILED",
                                       <<"Database update failed", e>>))
                /\ cur' = [cur EXCEPT !.dbErr = "failed to refresh database env file",
                                      !.responses = @ + 1, !.returned = "error"]
                /\ runPc' = "ml_select"
                /\ UNCHANGED dbEnvFile
           ELSE /\ dbEnvFile' = (dbEnvFile \/ e = "written")
                /\ \E s \in SignalOutcomes :
                     cur' = [cur EXCEPT
                               !.signals = @ + sendSignalToLauncher(s),
                               !.dbErr = IF s = "ok" THEN ""
                                         ELSE "failed to send SIGHUP after database update"]
                /\ runPc' = AfterDatabaseUpdates(cur)
                /\ UNCHANGED <<wire, lastMsg>>
    /\ UNCHANGED <<ctxDone, done, fault, connVars, stopPc, pushes,
                   rsyncRunning, tempFiles, pushIdFile, volume>>

\* processDatabaseBranchUpdates, called when the push carries updates: refresh
\* env.sh, then signal the launcher. Its error is logged by handlePushRequest
\* and the push goes on.
DatabaseUpdatesStep ==
    /\ Alive
    /\ runPc = "database"
    /\ \E e \in DatabaseEnvOutcomes :
         IF e = "failed"
           THEN /\ cur' = [cur EXCEPT !.dbErr = "failed to refresh database env file"]
                /\ UNCHANGED dbEnvFile
           ELSE /\ dbEnvFile' = (dbEnvFile \/ e = "written")
                /\ \E s \in SignalOutcomes :
                     cur' = [cur EXCEPT
                               !.signals = @ + sendSignalToLauncher(s),
                               !.dbErr = IF s = "ok" THEN ""
                                         ELSE "failed to send SIGHUP after database update"]
    /\ runPc' = AfterDatabaseUpdates(cur)
    /\ UNCHANGED <<ctxDone, done, fault, connVars, stopPc, pushes, wire, lastMsg,
                   rsyncRunning, tempFiles, pushIdFile, volume>>

\* The step of processDatabaseBranchUpdates as the sidecar on its own takes it.
processDatabaseBranchUpdates ==
    /\ DatabaseUpdatesStep
    /\ UNCHANGED notSidecar

\* Mutant of ApplyFailureResponse: the error text is left out.
ApplyFailureResponse_noCause(pushID, err) ==
    buildPushResponse(pushID, "FAILED", <<"Push application failed", "">>)

\* The PushResponse sent when applyRsyncBatch returned err.
ApplyFailureResponse(pushID, err) ==
    buildPushResponse(pushID, "FAILED", <<"Push application failed", err>>)

\* Mutant of SignalFailureResponse: a failed signal is reported as success.
SignalFailureResponse_completed(pushID, err) ==
    buildPushResponse(pushID, "COMPLETED", <<>>)

\* The PushResponse sent when sendSignalToLauncher returned err.
SignalFailureResponse(pushID, err) ==
    buildPushResponse(pushID, "FAILED", <<"Failed to send SIGHUP", err>>)

\* The PushResponse sent at the end of handlePushRequest.
CompletedResponse(pushID) == buildPushResponse(pushID, "COMPLETED", <<>>)

\* applyRsyncBatch up to os.CreateTemp: create .sidecar and the temporary
\* batch file in it, whose removal is deferred to the return of the function.
\* A failure makes handlePushRequest send FAILED and return.
ApplyRsyncBatchStart ==
    /\ Alive
    /\ UNCHANGED notSidecar
    /\ runPc = "apply"
    /\ \E r \in {"temporary batch file", "created"} :
         IF r = "created"
           THEN /\ tempFiles' = tempFiles + 1
                /\ runPc' = "batch_file"
                /\ UNCHANGED <<cur, wire, lastMsg>>
           ELSE /\ sendProtoMessage(ApplyFailureResponse(cur.id, r))
                /\ cur' = [cur EXCEPT !.applyErr = r, !.responses = @ + 1,
                                      !.returned = "error"]
                /\ runPc' = "ml_select"
                /\ UNCHANGED tempFiles
    /\ UNCHANGED <<ctxDone, done, fault, connVars, stopPc, pushes, rsyncRunning,
                   pushIdFile, volume, dbEnvFile>>

\* Mutant of WriteBatchFile: a failed write leaves the temporary file behind.
WriteBatchFile_noRemove ==
    /\ Alive
    /\ UNCHANGED notSidecar
    /\ runPc = "batch_file"
    /\ \E r \in {"write to temporary batch file", "target sync directory", "started"} :
         IF r = "started"
           THEN /\ rsyncRunning' = rsyncRunning \cup {cur.id}
                /\ runPc' = "rsync"
                /\ UNCHANGED <<cur, wire, lastMsg>>
           ELSE /\ sendProtoMessage(ApplyFailureResponse(cur.id, r))
                /\ cur' = [cur EXCEPT !.applyErr = r, !.responses = @ + 1,
                                      !.returned = "error"]
                /\ runPc' = "ml_select"
                /\ UNCHANGED rsyncRunning
    /\ UNCHANGED <<ctxDone, done, fault, connVars, stopPc, pushes, tempFiles,
                   pushIdFile, volume, dbEnvFile>>

\* applyRsyncBatch from the write of the batch to the start of the rsync
\* command (60s timeout): the write, the close or the creation of the target
\* directory can fail, and the function returns the error; the deferred
\* os.Remove then deletes the temporary file.
WriteBatchFile ==
    /\ Alive
    /\ UNCHANGED notSidecar
    /\ runPc = "batch_file"
    /\ \E r \in {"write to temporary batch file", "target sync directory", "started"} :
         IF r = "started"
           THEN /\ rsyncRunning' = rsyncRunning \cup {cur.id}
                /\ runPc' = "rsync"
                /\ UNCHANGED <<cur, wire, lastMsg, tempFiles>>
           ELSE /\ tempFiles' = tempFiles - 1
                /\ sendProtoMessage(ApplyFailureResponse(cur.id, r))
                /\ cur' = [cur EXCEPT !.applyErr = r, !.responses = @ + 1,
                                      !.returned = "error"]
                /\ runPc' = "ml_select"
                /\ UNCHANGED rsyncRunning
    /\ UNCHANGED <<ctxDone, done, fault, connVars, stopPc, pushes,
                   pushIdFile, volume, dbEnvFile>>

\* Mutant of ApplyRsyncBatchEnd: a failed rsync does not end the handling.
ApplyRsyncBatchEnd_goOn ==
    /\ Alive
    /\ UNCHANGED notSidecar
    /\ runPc = "rsync"
    /\ tempFiles' = tempFiles - 1
    /\ rsyncRunning' = rsyncRunning \ {cur.id}
    /\ \E r \in {"ok", "rsync command failed", "rsync command timed out"} :
         IF r = "ok"
           THEN /\ volume' = volume \cup {cur.id}
                /\ UNCHANGED cur
           ELSE /\ cur' = [cur EXCEPT !.applyErr = r]
                /\ UNCHANGED volume
    /\ runPc' = "push_id"
    /\ UNCHANGED <<ctxDone, done, fault, connVars, stopPc, pushes, wire, lastMsg,
                   pushIdFile, dbEnvFile>>

\* The rsync command ends: exit 0, a non-zero exit, or the 60s timeout. The
\* deferred os.Remove deletes the temporary file. On an error handlePushRequest
\* sends FAILED and returns; otherwise it goes on to the push_id file.
ApplyRsyncBatchEnd ==
    /\ Alive
    /\ UNCHANGED notSidecar
    /\ runPc = "rsync"
    /\ tempFiles' = tempFiles - 1
    /\ rsyncRunning' = rsyncRunning \ {cur.id}
    /\ \E r \in {"ok", "rsync command failed", "rsync command timed out"} :
         IF r = "ok"
           THEN /\ volume' = volume \cup {cur.id}
                /\ runPc' = "push_id"
                /\ UNCHANGED <<cur, wire, lastMsg>>
           ELSE /\ sendProtoMessage(ApplyFailureResponse(cur.id, r))
                /\ cur' = [cur EXCEPT !.applyErr = r, !.responses = @ + 1,
                                      !.returned = "error"]
                /\ runPc' = "ml_select"
                /\ UNCHANGED volume
    /\ UNCHANGED <<ctxDone, done, fault, connVars, stopPc, pushes,
                   pushIdFile, dbEnvFile>>

\* Mutant of WritePushID: COMPLETED is sent without signalling the launcher.
WritePushID_noSignal ==
    /\ Alive
    /\ UNCHANGED notSidecar
    /\ runPc = "push_id"
    /\ \E r \in {"ok", "launcher directory", "write file"} :
         IF r = "ok"
           THEN /\ pushIdFile' = cur.id
                /\ cur' = [cur EXCEPT !.written = TRUE]
                /\ runPc' = "complete"
           ELSE /\ cur' = [cur EXCEPT !.returned = "error"]
                /\ runPc' = "ml_select"
                /\ UNCHANGED pushIdFile
    /\ UNCHANGED <<ctxDone, done, fault, connVars, stopPc, pushes, wire, lastMsg,
                   rsyncRunning, tempFiles, volume, dbEnvFile>>

\* os.MkdirAll(launcherDir) and os.WriteFile(pushIDFilePath, pushID): a failure
\* of either returns the error from handlePushRequest.
WritePushID ==
    /\ Alive
    /\ UNCHANGED notSidecar
    /\ runPc = "push_id"
    /\ \E r \in {"ok", "launcher directory", "write file"} :
         IF r = "ok"
           THEN /\ pushIdFile' = cur.id
                /\ cur' = [cur EXCEPT !.written = TRUE]
                /\ runPc' = "signal"
           ELSE /\ cur' = [cur EXCEPT !.returned = "error"]
                /\ runPc' = "ml_select"
                /\ UNCHANGED pushIdFile
    /\ UNCHANGED <<ctxDone, done, fault, connVars, stopPc, pushes, wire, lastMsg,
                   rsyncRunning, tempFiles, volume, dbEnvFile>>

\* sendSignalToLauncher after the batch: on an error handlePushRequest sends
\* FAILED and returns.
SignalLauncherStep ==
    /\ Alive
    /\ runPc = "signal"
    /\ \E s \in SignalOutcomes :
         IF s = "ok"
           THEN /\ cur' = [cur EXCEPT !.signals = @ + sendSignalToLauncher(s)]
                /\ runPc' = "complete"
                /\ UNCHANGED <<wire, lastMsg>>
           ELSE /\ sendProtoMessage(SignalFailureResponse(cur.id, s))
                /\ cur' = [cur EXCEPT !.signalErr = s, !.responses = @ + 1,
                                      !.returned = "error"]
                /\ runPc' = "ml_select"
    /\ UNCHANGED <<ctxDone, done, fault, connVars, stopPc, pushes,
                   rsyncRunning, tempFiles, pushIdFile, volume, dbEnvFile>>

\* The signal step as the sidecar on its own takes it.
SignalLauncher ==
    /\ SignalLauncherStep
    /\ UNCHANGED notSidecar

\* The last statement of handlePushRequest: send COMPLETED, return nil.
SendCompleted ==
    /\ Alive
    /\ UNCHANGED notSidecar
    /\ runPc = "complete"
    /\ sendProtoMessage(CompletedResponse(cur.id))
    /\ cur' = [cur EXCEPT !.responses = @ + 1, !.returned = "nil"]
    /\ runPc' = "ml_select"
    /\ UNCHANGED <<ctxDone, done, fault, connVars, stopPc, pushes,
                   rsyncRunning, tempFiles, pushIdFile, volume, dbEnvFile>>

----------------------------------------------------------------------------
Next ==
    \/ Cancel
    \/ StopCall
    \/ \E c \in Callers : Stop(c)
    \/ ConcurrentWritePanic
    \/ RunSelect
    \/ DialOk
    \/ DialFail
    \/ SleepDial
    \/ MessageLoopSelect
    \/ ReadError
    \/ ReadOtherFrame
    \/ ReadNilPush
    \/ ReadPushRequest
    \/ processDatabaseBranchUpdates
    \/ ApplyRsyncBatchStart
    \/ WriteBatchFile
    \/ ApplyRsyncBatchEnd
    \/ WritePushID
    \/ SignalLauncher
    \/ SendCompleted
    \/ RunCloseConn
    \/ RunClearConn
    \/ RunPostSelect
    \/ SleepLost
    \/ RunReturn

Spec == Init /\ [][Next]_vars

\* The run goroutine: every wait of it is bounded (the dial by the dialer's
\* handshake timeout, the sleeps by 5s, a read by the 90s deadline, rsync by
\* its 60s timeout, the database fetch by the HTTP client's 10s timeout; a
\* write of a response returns once the frame is in the socket buffer), so
\* it always takes its next step.
RunProc ==
    \/ RunSelect
    \/ DialOk
    \/ DialFail
    \/ SleepDial
    \/ MessageLoopSelect
    \/ ReadError
    \/ ReadOtherFrame
    \/ ReadNilPush
    \/ ReadPushRequest
    \/ processDatabaseBranchUpdates
    \/ ApplyRsyncBatchStart
    \/ WriteBatchFile
    \/ ApplyRsyncBatchEnd
    \/ WritePushID
    \/ SignalLauncher
    \/ SendCompleted
    \/ RunCloseConn
    \/ RunClearConn
    \/ RunPostSelect
    \/ SleepLost
    \/ RunReturn
    \/ Stop("run")

\* The goroutine that called Stop() from outside runs it to its end.
MainProc == Stop("main")

FairSpec == Spec /\ WF_vars(RunProc) /\ WF_vars(MainProc)

----------------------------------------------------------------------------
\* escapeEnvValue (environment.go). A string is a sequence of characters.

\* The backquote character (ASCII 96), which begins a command substitution.
Backquote == "backquote"

\* The characters that make escapeEnvValue quote a value.
NeedsEscaping ==
    {" ", "\t", "\n", "\r", "\"", "'", "\\", "$", Backquote, "|", "&", ";", "(", ")", "<", ">"}

\* strings.ReplaceAll(value, "'", "'\"'\"'")
RECURSIVE ReplaceQuotes(_)
ReplaceQuotes(value) ==
    IF value = <<>> THEN <<>>
    ELSE (IF Head(value) = "'" THEN <<"'", "\"", "'", "\"", "'">> ELSE <<Head(value)>>)
         \o ReplaceQuotes(Tail(value))

\* escapeEnvValue: '' for the empty value, the value itself when it holds none
\* of the characters of NeedsEscaping, otherwise the value in single quotes
\* with every single quote replaced.
escapeEnvValue(value) ==
    IF value = <<>> THEN <<"'", "'">>
    ELSE IF \A i \in 1..Len(value) : value[i] \notin NeedsEscaping THEN value
    ELSE <<"'">> \o ReplaceQuotes(value) \o <<"'">>

----------------------------------------------------------------------------
\* EnvironmentManager.UpdateFromPush (environment.go), statement by statement.

\* The names a map can hold, in the byte order sort.Strings puts them in.
EnvKeyOrder == SubSeq(<<"A", "B", "a", "b">>, 1, MaxKeys)
EnvKeys == {EnvKeyOrder[i] : i \in 1..Len(EnvKeyOrder)}
KeyRank(key) == CHOOSE i \in 1..Len(EnvKeyOrder) : EnvKeyOrder[i] = key

\* The values of the maps: one that is written as it is, one that is quoted.
EnvValues == {<<"1">>, <<"b", " ", "'">>}

\* The map with no entry.
EmptyMap == [key \in {} |-> <<>>]

\* The envVariables arguments: nil, or a map (possibly empty).
EnvArgs ==
    {[isNil |-> TRUE, entries |-> EmptyMap]}
    \cup {[isNil |-> FALSE, entries |-> m] : m \in UNION {[K -> EnvValues] : K \in SUBSET EnvKeys}}

\* sort.Strings(keys)
RECURSIVE SortKeys(_)
SortKeys(keys) ==
    IF keys = {} THEN <<>>
    ELSE LET first == CHOOSE k \in keys : \A other \in keys : KeyRank(k) <= KeyRank(other)
         IN <<first>> \o SortKeys(keys \ {first})

\* fmt.Sprintf("export %s=%s", key, escapedValue)
ExportLine(key, escapedValue) == <<"export", " ", key, "=">> \o escapedValue

\* The lines UpdateFromPush builds: one per key, in sorted key order (the
\* content is the lines joined by "\n", with a trailing "\n" when there is
\* one at least).
EnvContent(entries) ==
    LET keys == SortKeys(DOMAIN entries)
    IN [i \in 1..Len(keys) |-> ExportLine(keys[i], escapeEnvValue(entries[keys[i]]))]

\* The prefixes of the content a failed or interrupted write can leave.
PartialContents(lines) == {SubSeq(lines, 1, n) : n \in 0..(Len(lines) - 1)}

\* UpdateFromPush is called: a nil map is replaced by an empty one.
UpdateFromPush ==
    /\ emPc \in {"idle", "returned"}
    /\ \E arg \in EnvArgs :
         emMap' = IF arg.isNil THEN EmptyMap ELSE arg.entries
    /\ emPrev' = envFile
    /\ emErr' = ""
    /\ emPc' = "mkdir"
    /\ UNCHANGED <<envFile, envTmp, sidecarVars, escVars, launcherVars,
                   urlVars, routerVars, instanceVars>>

\* os.MkdirAll(filepath.Dir(em.envFilePath))
MkdirSidecarDir ==
    /\ emPc = "mkdir"
    /\ \E ok \in BOOLEAN :
         IF ok THEN /\ emPc' = "open_temp"
                    /\ UNCHANGED emErr
               ELSE /\ emPc' = "returned"
                    /\ emErr' = "failed to create sidecar directory"
    /\ UNCHANGED <<envFile, envTmp, emMap, emPrev, sidecarVars, escVars, launcherVars,
                   urlVars, routerVars, instanceVars>>

\* os.WriteFile(tempFile, ...), first half: the temporary file is created, or
\* truncated when one was left behind.
OpenTemp ==
    /\ emPc = "open_temp"
    /\ \E ok \in BOOLEAN :
         IF ok THEN /\ envTmp' = [exists |-> TRUE, lines |-> <<>>]
                    /\ emPc' = "write_temp"
                    /\ UNCHANGED emErr
               ELSE /\ emPc' = "returned"
                    /\ emErr' = "failed to write temporary env file"
                    /\ UNCHANGED envTmp
    /\ UNCHANGED <<envFile, emMap, emPrev, sidecarVars, escVars, launcherVars,
                   urlVars, routerVars, instanceVars>>

\* Mutant of WriteTemp: the content is written to the Environment File itself.
WriteTemp_inPlace ==
    /\ emPc = "write_temp"
    /\ \/ /\ envFile' = [exists |-> TRUE, lines |-> EnvContent(emMap)]
          /\ emPc' = "rename"
          /\ UNCHANGED emErr
       \/ /\ \E part \in PartialContents(EnvContent(emMap)) :
               envFile' = [exists |-> TRUE, lines |-> part]
          /\ emPc' = "returned"
          /\ emErr' = "failed to write temporary env file"
    /\ UNCHANGED <<envTmp, emMap, emPrev, sidecarVars, escVars, launcherVars,
                   urlVars, routerVars, instanceVars>>

\* os.WriteFile(tempFile, ...), second half: the content is written, or the
\* write fails and leaves a part of it.
WriteTemp ==
    /\ emPc = "write_temp"
    /\ \/ /\ envTmp' = [exists |-> TRUE, lines |-> EnvContent(emMap)]
          /\ emPc' = "rename"
          /\ UNCHANGED emErr
       \/ /\ \E part \in PartialContents(EnvContent(emMap)) :
               envTmp' = [exists |-> TRUE, lines |-> part]
          /\ emPc' = "returned"
          /\ emErr' = "failed to write temporary env file"
    /\ UNCHANGED <<envFile, emMap, emPrev, sidecarVars, escVars, launcherVars,
                   urlVars, routerVars, instanceVars>>

\* Mutant of RenameTemp: the new lines are added to the old ones.
RenameTemp_append ==
    /\ emPc = "rename"
    /\ \E ok \in BOOLEAN :
         IF ok THEN /\ envFile' = [exists |-> TRUE, lines |-> envFile.lines \o envTmp.lines]
                    /\ envTmp' = NoFile
                    /\ emPc' = "returned"
               ELSE /\ emPc' = "remove_temp"
                    /\ UNCHANGED <<envFile, envTmp>>
    /\ UNCHANGED <<emMap, emPrev, emErr, sidecarVars, escVars, launcherVars,
                   urlVars, routerVars, instanceVars>>

\* os.Rename(tempFile, em.envFilePath): the temporary file takes the place of
\* the Environment File in one step, or nothing changes.
RenameTemp ==
    /\ emPc = "rename"
    /\ \E ok \in BOOLEAN :
         IF ok THEN /\ envFile' = envTmp
                    /\ envTmp' = NoFile
                    /\ emPc' = "returned"
               ELSE /\ emPc' = "remove_temp"
                    /\ UNCHANGED <<envFile, envTmp>>
    /\ UNCHANGED <<emMap, emPrev, emErr, sidecarVars, escVars, launcherVars,
                   urlVars, routerVars, instanceVars>>

\* os.Remove(tempFile) after a failed rename (its own error is ignored), then
\* the error of the rename is returned.
RemoveTemp ==
    /\ emPc = "remove_temp"
    /\ \E ok \in BOOLEAN : envTmp' = IF ok THEN NoFile ELSE envTmp
    /\ emErr' = "failed to replace env file"
    /\ emPc' = "returned"
    /\ UNCHANGED <<envFile, emMap, emPrev, sidecarVars, escVars, launcherVars,
                   urlVars, routerVars, instanceVars>>

\* The sidecar process is killed while UpdateFromPush runs.
Interrupt ==
    /\ emPc \in {"mkdir", "open_temp", "write_temp", "rename", "remove_temp"}
    /\ emPc' = "interrupted"
    /\ UNCHANGED <<envFile, envTmp, emMap, emPrev, emErr, sidecarVars, escVars, launcherVars,
                   urlVars, routerVars, instanceVars>>

\* A new sidecar process starts on the same volume: NewEnvironmentManager.
Restart ==
    /\ emPc = "interrupted"
    /\ emPc' = "idle"
    /\ UNCHANGED <<envFile, envTmp, emMap, emPrev, emErr, sidecarVars, escVars, launcherVars,
                   urlVars, routerVars, instanceVars>>

EnvNext ==
    \/ UpdateFromPush
    \/ MkdirSidecarDir
    \/ OpenTemp
    \/ WriteTemp
    \/ RenameTemp
    \/ RemoveTemp
    \/ Interrupt
    \/ Restart

EnvSpec == Init /\ [][EnvNext]_vars

----------------------------------------------------------------------------
\* A POSIX shell reading the text of escapeEnvValue as the right-hand side of
\* export KEY=<text>.

\* The characters of the values: a letter, the quotes, the space and the
\* characters the shell gives a meaning to.
Alphabet ==
    {"a", "'", "\"", " ", "$", Backquote, "\\", "|", "&", ";", "(", ")", "<", ">",
     "#", "*", "?", "~"}

\* The values: every string over Alphabet of MaxLen characters at most.
Values == UNION {[1..n -> Alphabet] : n \in 0..MaxLen}

\* The unquoted characters that end a word.
WordEnd == {" ", "\t", "\n", "|", "&", ";", "(", ")", "<", ">"}

\* The login names the system knows.
LoginNames == {<<"a">>}

\* The end of the tilde-prefix of a text that begins with an unquoted ~: the
\* last position before the first /, : or end of the word.
RECURSIVE TildePrefixEnd(_, _)
TildePrefixEnd(text, i) ==
    IF i > Len(text) \/ text[i] \in WordEnd \cup {"/", ":"} THEN i - 1
    ELSE TildePrefixEnd(text, i + 1)

\* The word the shell makes of text from position i on, in quoting mode
\* mode, added to acc. Quote removal: single quotes keep every character, in
\* double quotes a backslash escapes $, backquote, " and \ only, unquoted a backslash keeps
\* the next character. $ and a backquote begin an expansion, an unquoted word-ending
\* character ends the word. An assignment argument of export undergoes neither
\* field splitting nor pathname expansion, and # begins a comment only at the
\* start of a word.
RECURSIVE ShellWord(_, _, _, _)
ShellWord(text, i, mode, acc) ==
    IF i > Len(text)
      THEN IF mode = "unquoted" THEN acc ELSE Append(acc, "<syntax error>")
    ELSE LET c == text[i] IN
      CASE mode = "single" ->
             IF c = "'" THEN ShellWord(text, i + 1, "unquoted", acc)
             ELSE ShellWord(text, i + 1, "single", Append(acc, c))
        [] mode = "double" ->
             IF c = "\"" THEN ShellWord(text, i + 1, "unquoted", acc)
             ELSE IF c = "\\" /\ i < Len(text) /\ text[i + 1] \in {"$", Backquote, "\"", "\\"}
               THEN ShellWord(text, i + 2, "double", Append(acc, text[i + 1]))
             ELSE IF c \in {"$", Backquote}
               THEN ShellWord(text, i + 1, "double", Append(acc, "<expansion>"))
             ELSE ShellWord(text, i + 1, "double", Append(acc, c))
        [] OTHER ->
             IF c = "'" THEN ShellWord(text, i + 1, "single", acc)
             ELSE IF c = "\"" THEN ShellWord(text, i + 1, "double", acc)
             ELSE IF c = "\\"
               THEN IF i < Len(text)
                      THEN ShellWord(text, i + 2, "unquoted", Append(acc, text[i + 1]))
                      ELSE Append(acc, c)
             ELSE IF c \in {"$", Backquote}
               THEN ShellWord(text, i + 1, "unquoted", Append(acc, "<expansion>"))
             ELSE IF c \in WordEnd THEN acc
             ELSE ShellWord(text, i + 1, "unquoted", Append(acc, c))

\* Tilde expansion then quote removal. An unquoted ~ at the start of the value
\* of an assignment begins a tilde-prefix: with no login name it is replaced
\* by $HOME, with a known login name by that user's home directory; with an
\* unknown name, or a quoted character in the prefix, it stays.
ShellRead(text) ==
    IF text # <<>> /\ text[1] = "~"
      THEN LET last == TildePrefixEnd(text, 2)
               name == SubSeq(text, 2, last)
           IN IF name = <<>>
                THEN ShellWord(text, last + 1, "unquoted", <<"<HOME>">>)
              ELSE IF name \in LoginNames
                THEN ShellWord(text, last + 1, "unquoted", <<"<home of user>">>)
              ELSE ShellWord(text, 1, "unquoted", <<>>)
      ELSE ShellWord(text, 1, "unquoted", <<>>)

\* The values a rendering is asked for.
EscapeInit ==
    /\ SidecarInit
    /\ EnvInit
    /\ LauncherInit
    /\ UrlIdle
    /\ RouterInit
    /\ escValue \in Values
    /\ escText = <<>>
    /\ escRead = <<>>
    /\ escPc = "value"

\* UpdateFromPush renders the value.
Escape ==
    /\ escPc = "value"
    /\ escText' = escapeEnvValue(escValue)
    /\ escPc' = "escaped"
    /\ UNCHANGED <<escValue, escRead, sidecarVars, envVars, launcherVars,
                   urlVars, routerVars, instanceVars>>

\* The shell sources the line export KEY=<text>.
Source ==
    /\ escPc = "escaped"
    /\ escRead' = ShellRead(escText)
    /\ escPc' = "sourced"
    /\ UNCHANGED <<escValue, escText, sidecarVars, envVars, launcherVars,
                   urlVars, routerVars, instanceVars>>

EscapeNext == Escape \/ Source

EscapeSpec == EscapeInit /\ [][EscapeNext]_vars

----------------------------------------------------------------------------
\* The launcher script (launcher-script/rsync-launcher.sh). The shell runs one
\* command at a time; the action of a trap runs between two commands of
\* whatever the shell is executing, the action of an earlier trap included.

\* The process ids the system can hand out.
MaxPids == MaxHups + 3
Pids == 1..MaxPids

\* The command lines the launcher can be given: MaxArgs >= n >= 1 words as n
\* arguments, or as one quoted string.
ScriptArgs ==
    {[i \in 1..n |-> <<Words[i]>>] : n \in 1..MaxArgs}
        \cup {<<SubSeq(Words, 1, n)>> : n \in 1..MaxArgs}

\* "$*": the arguments joined by spaces, as sh -c splits them into words again.
RECURSIVE Star(_)
Star(args) == IF args = <<>> THEN <<>> ELSE Head(args) \o Star(Tail(args))

\* The position of the innermost level of control.
Top == stack[Len(stack)]

\* The shell goes on at pc on its innermost level.
Goto(pc) == stack' = [stack EXCEPT ![Len(stack)].pc = pc]

\* The shell is about to execute the command at pc.
At(pc) == launcherUp /\ Top.pc = pc

\* The positions inside kill_process_tree.
KillPcs == {"kill_read", "kill_term", "kill_wait", "kill_force"}

\* "$@" where a level of control stands: inside kill_process_tree its one
\* argument (the pid, not a word of the command), otherwise the level's own.
Positional(frame) == IF frame.pc \in KillPcs THEN <<<<0>>>> ELSE frame.args

\* Where the caller of kill_process_tree goes on: start_app to its spawn, the
\* action of the TERM trap to exit 0.
AfterKill == IF Top.ctx = "term" THEN "exit" ELSE "spawn"

\* The sidecar's main creates .sidecar and .launcher, one after the other.
MakeControlDirs ==
    /\ \E d \in {".sidecar", ".launcher"} \ dirs : dirs' = dirs \cup {d}
    /\ UNCHANGED <<launcherPid, trapsSet, launcherUp, stack, hupPending, hups,
                   termPending, terms, appPidFile, appPgidFile, apps, pgid, appCmd,
                   sidecarVars, envVars, escVars,
                   urlVars, routerVars, instanceVars>>

\* Mutant of WaitForDirs: the wait ends when one of the directories exists.
WaitForDirs_either ==
    /\ At("wait_dirs")
    /\ dirs # {}
    /\ Goto("write_pid")
    /\ UNCHANGED <<dirs, launcherPid, trapsSet, launcherUp, hupPending, hups,
                   termPending, terms, appPidFile, appPgidFile, apps, pgid, appCmd,
                   sidecarVars, envVars, escVars,
                   urlVars, routerVars, instanceVars>>

\* while [ ! -d .sidecar ] || [ ! -d .launcher ]; do sleep 2; done
WaitForDirs ==
    /\ At("wait_dirs")
    /\ dirs = {".sidecar", ".launcher"}
    /\ Goto("write_pid")
    /\ UNCHANGED <<dirs, launcherPid, trapsSet, launcherUp, hupPending, hups,
                   termPending, terms, appPidFile, appPgidFile, apps, pgid, appCmd,
                   sidecarVars, envVars, escVars,
                   urlVars, routerVars, instanceVars>>

\* echo $$ > .launcher/launcher.pid
WriteLauncherPid ==
    /\ At("write_pid")
    /\ launcherPid' = TRUE
    /\ Goto("set_traps")
    /\ UNCHANGED <<dirs, trapsSet, launcherUp, hupPending, hups, termPending, terms,
                   appPidFile, appPgidFile, apps, pgid, appCmd, sidecarVars, envVars,
                   escVars, urlVars, routerVars, instanceVars>>

\* trap 'handle_sighup "$@"' HUP and trap '...' TERM INT, after the function
\* definitions.
SetTraps ==
    /\ At("set_traps")
    /\ trapsSet' = TRUE
    /\ Goto("poll_sleep")
    /\ UNCHANGED <<dirs, launcherPid, launcherUp, hupPending, hups, termPending, terms,
                   appPidFile, appPgidFile, apps, pgid, appCmd, sidecarVars, envVars,
                   escVars, urlVars, routerVars, instanceVars>>

\* The sidecar (sendSignalToLauncher) sends SIGHUP to the pid of launcher.pid.
\* Before the trap is installed the signal ends the shell; afterwards it is
\* pending until the shell is between two commands.
Sighup ==
    /\ launcherUp
    /\ launcherPid
    /\ hups < MaxHups
    /\ hups' = hups + 1
    /\ IF trapsSet THEN /\ hupPending' = TRUE
                        /\ UNCHANGED launcherUp
                   ELSE /\ launcherUp' = FALSE
                        /\ UNCHANGED hupPending
    /\ UNCHANGED <<dirs, launcherPid, trapsSet, stack, termPending, terms, appPidFile,
                   appPgidFile, apps, pgid, appCmd, sidecarVars, envVars, escVars,
                   urlVars, routerVars, instanceVars>>

\* The container runtime sends SIGTERM (or a terminal SIGINT) to the
\* launcher: the default action ends the shell until the trap is installed.
Sigterm ==
    /\ launcherUp
    /\ terms < MaxTerms
    /\ terms' = terms + 1
    /\ IF trapsSet THEN /\ termPending' = TRUE
                        /\ UNCHANGED launcherUp
                   ELSE /\ launcherUp' = FALSE
                        /\ UNCHANGED termPending
    /\ UNCHANGED <<dirs, launcherPid, trapsSet, stack, hupPending, hups, appPidFile,
                   appPgidFile, apps, pgid, appCmd, sidecarVars, envVars, escVars,
                   urlVars, routerVars, instanceVars>>

\* A launched process group ends by itself (the application exits, its
\* command cannot be executed, or it is killed from outside).
AppExit ==
    /\ \E p \in apps : apps' = apps \ {p}
    /\ UNCHANGED <<dirs, launcherPid, trapsSet, launcherUp, stack, hupPending, hups,
                   termPending, terms, appPidFile, appPgidFile, pgid, appCmd,
                   sidecarVars, envVars, escVars,
                   urlVars, routerVars, instanceVars>>

\* Mutant of TrapHup: handle_sighup restarts without update_files.
TrapHup_noPromotion ==
    /\ launcherUp
    /\ trapsSet
    /\ hupPending
    /\ hupPending' = FALSE
    /\ stack' = Append(stack, Frame("hup", "shift", FALSE, FALSE, Positional(Top)))
    /\ UNCHANGED <<dirs, launcherPid, trapsSet, launcherUp, hups, termPending, terms,
                   appPidFile, appPgidFile, apps, pgid, appCmd, sidecarVars, envVars,
                   escVars, urlVars, routerVars, instanceVars>>

\* The shell, between two commands, runs the action of the HUP trap:
\* handle_sighup "$@", with the positional parameters of the code it
\* interrupts.
TrapHup ==
    /\ launcherUp
    /\ trapsSet
    /\ hupPending
    /\ hupPending' = FALSE
    /\ stack' = Append(stack, Frame("hup", "update_files", FALSE, FALSE, Positional(Top)))
    /\ answering' = hupPush
    /\ UNCHANGED <<dirs, launcherPid, trapsSet, launcherUp, hups, termPending, terms,
                   appPidFile, appPgidFile, apps, pgid, appCmd, pushIdEnv, shellEnv,
                   hupPush, sidecarVars, envVars, escVars, urlVars, routerVars>>

\* The shell, between two commands, runs the action of the TERM/INT trap:
\* echo; kill_process_tree "$(cat "$APP_PID_FILE" 2>/dev/null)"; exit 0.
TrapTerm ==
    /\ launcherUp
    /\ trapsSet
    /\ termPending
    /\ termPending' = FALSE
    /\ stack' = Append(stack, Frame("term", "kill_read", FALSE, FALSE, Positional(Top)))
    /\ UNCHANGED <<dirs, launcherPid, trapsSet, launcherUp, hupPending, hups, terms,
                   appPidFile, appPgidFile, apps, pgid, appCmd, sidecarVars, envVars,
                   escVars, urlVars, routerVars, instanceVars>>

\* exit 0 at the end of the TERM/INT trap action.
ExitLauncher ==
    /\ At("exit")
    /\ launcherUp' = FALSE
    /\ UNCHANGED <<dirs, launcherPid, trapsSet, stack, hupPending, hups, termPending,
                   terms, appPidFile, appPgidFile, apps, pgid, appCmd, sidecarVars,
                   envVars, escVars,
                   urlVars, routerVars, instanceVars>>

\* handle_sighup: update_files returns 0 after a successful rsync, 1 when
\* there is no executable .sidecar/rsync_* or rsync fails. handle_sighup does
\* not look at the status: it goes on to shift and start_app.
update_files ==
    /\ At("update_files")
    /\ \E ok \in BOOLEAN :
         stack' = [stack EXCEPT ![Len(stack)].pc = "shift",
                                ![Len(stack)].promoted = TRUE,
                                ![Len(stack)].failed = ~ok]
    /\ UNCHANGED <<dirs, launcherPid, trapsSet, launcherUp, hupPending, hups,
                   termPending, terms, appPidFile, appPgidFile, apps, pgid, appCmd,
                   sidecarVars, envVars, escVars,
                   urlVars, routerVars, instanceVars>>

\* shift in handle_sighup drops the first positional parameter. With none,
\* shift fails: a POSIX shell may exit on the error of a special built-in
\* (dash does), or go on (bash does).
Shift ==
    /\ At("shift")
    /\ IF Top.args # <<>>
         THEN /\ stack' = [stack EXCEPT ![Len(stack)].pc = "start_app",
                                        ![Len(stack)].failed = FALSE,
                                        ![Len(stack)].args = Tail(@)]
              /\ UNCHANGED launcherUp
         ELSE \/ /\ stack' = [stack EXCEPT ![Len(stack)].pc = "start_app",
                                           ![Len(stack)].failed = FALSE]
                 /\ UNCHANGED launcherUp
              \/ launcherUp' = FALSE /\ UNCHANGED stack
    /\ UNCHANGED <<dirs, launcherPid, trapsSet, hupPending, hups, termPending, terms,
                   appPidFile, appPgidFile, apps, pgid, appCmd, sidecarVars, envVars,
                   escVars, urlVars, routerVars, instanceVars>>

\* The main loop: sleep 1.
PollSleep ==
    /\ At("poll_sleep")
    /\ Goto("poll_check")
    /\ UNCHANGED <<dirs, launcherPid, trapsSet, launcherUp, hupPending, hups,
                   termPending, terms, appPidFile, appPgidFile, apps, pgid, appCmd,
                   sidecarVars, envVars, escVars,
                   urlVars, routerVars, instanceVars>>

\* Mutant of PollCheck: a dead process group is not restarted.
PollCheck_noRestart ==
    /\ At("poll_check")
    /\ IF appPidFile # 0 /\ appPgidFile # 0
         THEN Goto("poll_sleep")
         ELSE Goto("start_app")
    /\ UNCHANGED <<dirs, launcherPid, trapsSet, launcherUp, hupPending, hups,
                   termPending, terms, appPidFile, appPgidFile, apps, pgid, appCmd,
                   sidecarVars, envVars, escVars,
                   urlVars, routerVars, instanceVars>>

\* The main loop: with both record files present, kill -0 on the recorded
\* group, and start_app when it is gone; start_app when a file is missing.
PollCheck ==
    /\ At("poll_check")
    /\ IF appPidFile # 0 /\ appPgidFile # 0
         THEN IF appPgidFile \in apps THEN Goto("poll_sleep") ELSE Goto("start_app")
         ELSE Goto("start_app")
    /\ UNCHANGED <<dirs, launcherPid, trapsSet, launcherUp, hupPending, hups,
                   termPending, terms, appPidFile, appPgidFile, apps, pgid, appCmd,
                   sidecarVars, envVars, escVars,
                   urlVars, routerVars, instanceVars>>

\* The lines of .sidecar/env.sh, which writeDatabaseEnvFile writes:
\* export <EnvVarName>="<ConnectionURI>" for every database of the branch.
DatabaseEnvLines == {<<"export", " ", "DATABASE_URL", "=", "\"", "uri", "\"">>}

\* start_app up to its test of the pid file: BIFROST_PUSH_ID is exported
\* from .launcher/push_id (unset when the file is missing or empty),
\* .sidecar/env.sh is sourced if it exists, then kill_process_tree is called
\* if app.pid exists. No other file is sourced.
start_app ==
    /\ At("start_app")
    /\ pushIdEnv' = pushIdFile
    /\ shellEnv' = IF dbEnvFile THEN shellEnv \cup DatabaseEnvLines ELSE shellEnv
    /\ IF appPidFile # 0 THEN Goto("kill_read") ELSE Goto("spawn")
    /\ UNCHANGED <<dirs, launcherPid, trapsSet, launcherUp, hupPending, hups,
                   termPending, terms, appPidFile, appPgidFile, apps, pgid, appCmd,
                   answering, hupPush, sidecarVars, envVars, escVars,
                   urlVars, routerVars>>

\* kill_process_tree: pgid=$(cat "$APP_PGID_FILE") when that file exists.
\* Without it and with a pid (what app.pid holds), that one process is sent
\* the signal, waited for and killed: the leader of the group ends, and the
\* rest of its group with it or not. Without both nothing is done.
kill_process_tree ==
    /\ At("kill_read")
    /\ IF appPgidFile # 0
         THEN /\ pgid' = appPgidFile
              /\ Goto("kill_term")
              /\ UNCHANGED apps
         ELSE /\ \E ends \in BOOLEAN :
                   apps' = IF ends THEN apps \ {appPidFile} ELSE apps
              /\ Goto(AfterKill)
              /\ UNCHANGED pgid
    /\ UNCHANGED <<dirs, launcherPid, trapsSet, launcherUp, hupPending, hups,
                   termPending, terms, appPidFile, appPgidFile, appCmd,
                   sidecarVars, envVars, escVars,
                   urlVars, routerVars, instanceVars>>

\* kill -15 -$pgid: the group ends at once, or goes on for a while.
KillTerm ==
    /\ At("kill_term")
    /\ \E ends \in BOOLEAN : apps' = IF ends THEN apps \ {pgid} ELSE apps
    /\ Goto("kill_wait")
    /\ UNCHANGED <<dirs, launcherPid, trapsSet, launcherUp, hupPending, hups,
                   termPending, terms, appPidFile, appPgidFile, pgid, appCmd,
                   sidecarVars, envVars, escVars,
                   urlVars, routerVars, instanceVars>>

\* while kill -0 -$pgid && [ "$wait_time" -lt 5 ]; do sleep 1; ...: the loop
\* ends when the group is gone or after 5 sleeps.
KillWait ==
    /\ At("kill_wait")
    /\ Goto("kill_force")
    /\ UNCHANGED <<dirs, launcherPid, trapsSet, launcherUp, hupPending, hups,
                   termPending, terms, appPidFile, appPgidFile, apps, pgid, appCmd,
                   sidecarVars, envVars, escVars,
                   urlVars, routerVars, instanceVars>>

\* if kill -0 -$pgid; then kill -9 -$pgid; fi
KillForce ==
    /\ At("kill_force")
    /\ apps' = apps \ {pgid}
    /\ Goto(AfterKill)
    /\ UNCHANGED <<dirs, launcherPid, trapsSet, launcherUp, hupPending, hups,
                   termPending, terms, appPidFile, appPgidFile, pgid, appCmd,
                   sidecarVars, envVars, escVars,
                   urlVars, routerVars, instanceVars>>

\* The pid of a new process: one that no live group and no record holds.
FreshPid == CHOOSE p \in Pids \ (apps \cup {appPidFile, appPgidFile, pgid}) :
                \A q \in Pids \ (apps \cup {appPidFile, appPgidFile, pgid}) : p <= q

\* ( setsid sh -c "$*" & ... echo "$APP_PID" > app.pid; echo "$APP_PGID" >
\* app-pgid.pid; wait ... ) &: the background subshell starts the instance in
\* a new process group and records it, within the sleep 1 that follows.
SpawnApp ==
    /\ At("spawn")
    /\ apps' = apps \cup {FreshPid}
    /\ appPidFile' = FreshPid
    /\ appPgidFile' = FreshPid
    /\ appCmd' = Star(Top.args)
    /\ Goto("started")
    /\ UNCHANGED <<dirs, launcherPid, trapsSet, launcherUp, hupPending, hups,
                   termPending, terms, pgid, sidecarVars, envVars, escVars,
                   urlVars, routerVars, instanceVars>>

\* sleep 1 at the end of start_app, then return: to the main loop, or out of
\* the trap action to the command that was interrupted.
StartAppReturn ==
    /\ At("started")
    /\ IF Top.ctx = "main"
         THEN Goto("poll_sleep")
         ELSE stack' = SubSeq(stack, 1, Len(stack) - 1)
    /\ UNCHANGED <<dirs, launcherPid, trapsSet, launcherUp, hupPending, hups,
                   termPending, terms, appPidFile, appPgidFile, apps, pgid, appCmd,
                   sidecarVars, envVars, escVars,
                   urlVars, routerVars, instanceVars>>

\* The steps of the launcher shell.
LauncherProc ==
    \/ WaitForDirs
    \/ WriteLauncherPid
    \/ SetTraps
    \/ TrapHup
    \/ update_files
    \/ Shift
    \/ PollSleep
    \/ PollCheck
    \/ start_app
    \/ kill_process_tree
    \/ KillTerm
    \/ KillWait
    \/ KillForce
    \/ SpawnApp
    \/ StartAppReturn

\* The launcher and its environment as long as no termination signal is sent.
LauncherNext ==
    \/ MakeControlDirs
    \/ Sighup
    \/ AppExit
    \/ LauncherProc

LauncherSpec == Init /\ [][LauncherNext]_vars

\* The launcher and its environment, termination signals included.
TermNext ==
    \/ LauncherNext
    \/ Sigterm
    \/ TrapTerm
    \/ ExitLauncher

TermSpec == Init /\ [][TermNext]_vars

\* One of the two record files disappears from .sidecar, which the launcher
\* shares with the sidecar and with whoever manages the volume; at most one
\* instance is alive then.
LoseRecord ==
    /\ appPidFile # 0 /\ appPgidFile # 0
    /\ Cardinality(apps) <= 1
    /\ \/ appPidFile' = 0 /\ UNCHANGED appPgidFile
       \/ appPgidFile' = 0 /\ UNCHANGED appPidFile
    /\ UNCHANGED <<dirs, launcherPid, trapsSet, launcherUp, stack, hupPending, hups,
                   termPending, terms, apps, pgid, appCmd, sidecarVars, envVars,
                   escVars, urlVars, routerVars, instanceVars>>

\* The launcher with record files that can go missing.
RecordNext ==
    \/ LauncherNext
    \/ LoseRecord

RecordSpec == Init /\ [][RecordNext]_vars

\* The restart that follows an environment update: SIGHUP is sent when a call
\* of UpdateFromPush has returned nil.
SighupAfterUpdate ==
    /\ emPc = "returned"
    /\ emErr = ""
    /\ Sighup

\* The first call of UpdateFromPush of a sidecar.
FirstUpdateFromPush ==
    /\ emPc = "idle"
    /\ UpdateFromPush

\* The EnvironmentManager and the launcher on one volume: UpdateFromPush is
\* called while the launcher runs, and the update is followed by SIGHUPs.
RefreshNext ==
    \/ FirstUpdateFromPush
    \/ MkdirSidecarDir
    \/ OpenTemp
    \/ WriteTemp
    \/ RenameTemp
    \/ RemoveTemp
    \/ MakeControlDirs
    \/ LauncherProc
    \/ SighupAfterUpdate

RefreshSpec == Init /\ [][RefreshNext]_vars

\* A step of the sidecar in which sendSignalToLauncher may be called, with the
\* launcher on the same volume: a SIGHUP that is sent (launcher.pid written,
\* the launcher alive) reaches the launcher within the step. batch says that
\* the signal is the one sent after the batch of the push has been applied.
SignalReachesLauncher(step, batch) ==
    /\ step
    /\ IF cur'.signals > cur.signals
         THEN /\ launcherUp
              /\ launcherPid
              /\ hups' = hups + 1
              /\ hupPush' = IF batch THEN cur.id ELSE 0
              /\ IF trapsSet THEN /\ hupPending' = TRUE
                                  /\ UNCHANGED launcherUp
                             ELSE /\ launcherUp' = FALSE
                                  /\ UNCHANGED hupPending
         ELSE UNCHANGED <<hups, hupPush, hupPending, launcherUp>>
    /\ UNCHANGED <<dirs, launcherPid, trapsSet, stack, termPending, terms, appPidFile,
                   appPgidFile, apps, pgid, appCmd, pushIdEnv, shellEnv, answering,
                   envVars, escVars, urlVars, routerVars>>

DatabaseUpdatesSignal == SignalReachesLauncher(DatabaseUpdatesStep, FALSE)

BatchSignal == SignalReachesLauncher(SignalLauncherStep, TRUE)

\* The sidecar with its connection established, and the launcher on the same
\* volume with the first instance started by its main loop.
PushInit ==
    /\ ctxDone = FALSE
    /\ done = FALSE
    /\ fault = "none"
    /\ conn = 1
    /\ open = {1}
    /\ runPc = "ml_select"
    /\ stopPc = [c \in Callers |-> "idle"]
    /\ pushes = 0
    /\ cur = NoPush
    /\ wire = <<>>
    /\ lastMsg = NoMessage
    /\ rsyncRunning = {}
    /\ tempFiles = 0
    /\ pushIdFile = 0
    /\ volume = {}
    /\ dbEnvFile = FALSE
    /\ EnvInit /\ EscapeIdle /\ UrlIdle /\ RouterInit
    /\ dirs = {".sidecar", ".launcher"}
    /\ launcherPid = TRUE
    /\ trapsSet = TRUE
    /\ launcherUp = TRUE
    /\ stack = <<Frame("main", "poll_sleep", FALSE, FALSE, EntrypointArgs)>>
    /\ hupPending = FALSE
    /\ hups = 0
    /\ termPending = FALSE
    /\ terms = 0
    /\ appPidFile = 1
    /\ appPgidFile = 1
    /\ apps = {1}
    /\ pgid = 0
    /\ appCmd = Star(EntrypointArgs)
    /\ pushIdEnv = 0
    /\ shellEnv = {}
    /\ answering = 0
    /\ hupPush = 0

\* A PushRequest that carries a batch (and no environment_variables, which
\* handlePushRequest does not read) arrives.
ReadBatchPush ==
    /\ ReadPushRequest
    /\ cur'.batch
    /\ ~cur'.env

\* The message loop handling pushes, and the launcher its signals restart.
PushNext ==
    \/ MessageLoopSelect
    \/ ReadBatchPush
    \/ DatabaseUpdatesSignal
    \/ ApplyRsyncBatchStart
    \/ WriteBatchFile
    \/ ApplyRsyncBatchEnd
    \/ WritePushID
    \/ BatchSignal
    \/ SendCompleted
    \/ TrapHup
    \/ update_files
    \/ Shift
    \/ PollSleep
    \/ PollCheck
    \/ start_app
    \/ kill_process_tree
    \/ KillTerm
    \/ KillWait
    \/ KillForce
    \/ SpawnApp
    \/ StartAppReturn

PushSpec == PushInit /\ [][PushNext]_vars

\* The launcher given any command line, not only that of the entrypoint.
CommandInit ==
    /\ SidecarInit /\ EnvInit /\ EscapeIdle /\ UrlIdle /\ RouterInit
    /\ \E args \in ScriptArgs : LauncherBegins(args)

CommandSpec == CommandInit /\ [][LauncherNext]_vars

\* The shell always executes its next command: every sleep and wait of the
\* script is bounded.
LauncherFairSpec == LauncherSpec /\ WF_vars(LauncherProc)

----------------------------------------------------------------------------
\* FileSyncer.buildWebSocketURL. A URL string is the sequence of its tokens:
\* names, and the delimiters ":", "/" and "?".

\* The index of the first tok in seq (0: none), and seq from index i on.
IndexOf(seq, tok) ==
    IF \E i \in DOMAIN seq : seq[i] = tok
      THEN CHOOSE i \in DOMAIN seq : seq[i] = tok /\ \A j \in 1..(i - 1) : seq[j] # tok
      ELSE 0
From(seq, i) == SubSeq(seq, i, Len(seq))

\* A path of segments, each after a slash.
RECURSIVE Slashed(_)
Slashed(segs) == IF segs = <<>> THEN <<>> ELSE <<"/", Head(segs)>> \o Slashed(Tail(segs))

\* rw.apiURL as the operator writes it: scheme://host[:port][/base][?query].
ApiURL(p) ==
    <<p.scheme, ":", "/", "/", p.host>>
        \o (IF p.port = "" THEN <<>> ELSE <<":", p.port>>)
        \o Slashed(p.base)
        \o (IF p.query = "" THEN <<>> ELSE <<"?", p.query>>)

\* strings.ToLower on the names of the model.
ToLower(name) == IF name = "HTTPS" THEN "https" ELSE name

\* url.Parse: the scheme up to the first colon, lower-cased; the query after
\* the first "?"; then an opaque rest, or //authority up to the next slash and
\* the path from that slash on.
urlParse(raw) ==
    LET hasScheme == Len(raw) >= 2 /\ raw[2] = ":" /\ raw[1] \notin {":", "/", "?"}
        rest0 == IF hasScheme THEN From(raw, 3) ELSE raw
        q == IndexOf(rest0, "?")
        rest == IF q = 0 THEN rest0 ELSE SubSeq(rest0, 1, q - 1)
        query == IF q = 0 THEN <<>> ELSE From(rest0, q + 1)
        authority == Len(rest) >= 2 /\ rest[1] = "/" /\ rest[2] = "/"
        after == From(rest, 3)
        s == IndexOf(after, "/")
        url == [Scheme |-> IF hasScheme THEN ToLower(raw[1]) ELSE "",
                Opaque |-> <<>>, Host |-> <<>>, Path |-> <<>>, RawQuery |-> query]
    IN  IF hasScheme /\ (rest = <<>> \/ rest[1] # "/")
          THEN [url EXCEPT !.Opaque = rest]
        ELSE IF authority
          THEN [url EXCEPT !.Host = IF s = 0 THEN after ELSE SubSeq(after, 1, s - 1),
                           !.Path = IF s = 0 THEN <<>> ELSE From(after, s)]
        ELSE [url EXCEPT !.Path = rest]

\* (*URL).String: scheme:opaque?query, or scheme://host/path?query.
urlString(u) ==
    LET query == IF u.RawQuery # <<>> THEN <<"?">> \o u.RawQuery ELSE <<>>
        scheme == IF u.Scheme # "" THEN <<u.Scheme, ":">> ELSE <<>>
        host == IF (u.Scheme # "" \/ u.Host # <<>>) /\ (u.Host # <<>> \/ u.Path # <<>>)
                  THEN <<"/", "/">> \o u.Host ELSE <<>>
        slash == IF u.Path # <<>> /\ u.Path[1] # "/" /\ u.Host # <<>>
                   THEN <<"/">> ELSE <<>>
    IN  IF u.Opaque # <<>> THEN scheme \o u.Opaque \o query
        ELSE scheme \o host \o slash \o u.Path \o query

\* fmt.Sprintf("/api/v1/push/sidecar/%s/%s", rw.appID, rw.deploymentID)
SidecarPath(appID, deploymentID) ==
    <<"/", "api", "/", "v1", "/", "push", "/", "sidecar", "/", appID, "/", deploymentID>>

\* Mutant of buildWebSocketURL: the sidecar path is appended to the base path.
buildWebSocketURL_keepBasePath(apiURL, appID, deploymentID) ==
    LET u == urlParse(apiURL)
    IN  urlString([u EXCEPT !.Scheme = IF u.Scheme = "https" THEN "wss" ELSE "ws",
                            !.Path = u.Path \o SidecarPath(appID, deploymentID)])

\* buildWebSocketURL: parse rw.apiURL, replace the scheme and the path, and
\* return the string of the URL.
buildWebSocketURL(apiURL, appID, deploymentID) ==
    LET u == urlParse(apiURL)
    IN  urlString([u EXCEPT !.Scheme = IF u.Scheme = "https" THEN "wss" ELSE "ws",
                            !.Path = SidecarPath(appID, deploymentID)])

\* A FileSyncer is made with a valid BIFROST_API_URL.
UrlInit ==
    /\ SidecarInit /\ EnvInit /\ EscapeIdle /\ LauncherInit /\ RouterInit
    /\ urlParts \in UrlParts
    /\ wsURL = <<>>

\* run calls rw.buildWebSocketURL().
BuildURL ==
    /\ wsURL = <<>>
    /\ wsURL' = buildWebSocketURL(ApiURL(urlParts), urlParts.appID, urlParts.deploymentID)
    /\ UNCHANGED <<urlParts, sidecarVars, envVars, escVars, launcherVars, routerVars, instanceVars>>

UrlSpec == UrlInit /\ [][BuildURL]_vars

----------------------------------------------------------------------------
\* The router of code-sync-proxy, after its description: a registry of one
\* sidecar connection per route key, the tracking of each forwarded push_id
\* with the editor connection that sent it, and one lock around both.

\* The route keys (app_id, deployment_id), and the editor connections and the
\* sidecar connections, each numbered in the order the proxy accepts them.
RouteKeys == {<<"app1", "deployment1">>, <<"app1", "deployment2">>}
Editors == 1..MaxEditors
SidecarConns == 1..MaxSidecars

\* The editor connections so far: those that have pushed, and the next one.
EditorConns ==
    LET pushed == {origin[i].editor : i \in DOMAIN origin}
    IN  (pushed \cup {Cardinality(pushed) + 1}) \cap Editors

\* The connections registered for a route key.
Registered(routeKey) == {c \in SidecarConns : <<routeKey, c>> \in registry}

\* A PushResponse on its way to an editor connection.
Response(editor, push_id, status) ==
    [editor |-> editor, push_id |-> push_id, status |-> status]

\* Mutant of RegisterSidecar: the connection registered before stays open.
RegisterSidecar_noClose(routeKey, sidecar) ==
    /\ registry' = {r \in registry : r[1] # routeKey} \cup {<<routeKey, sidecar>>}
    /\ sidecarOpen' = sidecarOpen \cup {sidecar}
    /\ UNCHANGED sidecarQueue

\* RegisterSidecar(routeKey, sidecar): under the lock, the connection registered
\* for the key is closed and replaced by sidecar; what the closed connection had
\* not answered is lost with it.
RegisterSidecar(routeKey, sidecar) ==
    /\ registry' = {r \in registry : r[1] # routeKey} \cup {<<routeKey, sidecar>>}
    /\ sidecarOpen' = (sidecarOpen \ Registered(routeKey)) \cup {sidecar}
    /\ sidecarQueue' = {m \in sidecarQueue : m[1] \notin Registered(routeKey)}

\* A sidecar connects on the path of its route key and is registered.
SidecarConnects ==
    /\ accepted < MaxSidecars
    /\ accepted' = accepted + 1
    /\ \E routeKey \in RouteKeys : RegisterSidecar(routeKey, accepted + 1)
    /\ UNCHANGED <<tracking, forwarding, editorInbox, origin>>
    /\ UNCHANGED <<sidecarVars, envVars, escVars, launcherVars, urlVars, instanceVars>>

\* A sidecar connection is lost; its handler has not unregistered it yet.
SidecarDisconnects ==
    \E sidecar \in sidecarOpen :
      /\ sidecarOpen' = sidecarOpen \ {sidecar}
      /\ sidecarQueue' = {m \in sidecarQueue : m[1] # sidecar}
      /\ UNCHANGED <<registry, accepted, tracking, forwarding, editorInbox, origin>>
      /\ UNCHANGED <<sidecarVars, envVars, escVars, launcherVars, urlVars, instanceVars>>

\* The handler of a closed sidecar connection unregisters it: under the lock,
\* the entry of its key is removed if it is still this connection.
UnregisterSidecar ==
    \E r \in registry :
      /\ r[2] \notin sidecarOpen
      /\ registry' = registry \ {r}
      /\ UNCHANGED <<sidecarOpen, accepted, tracking, forwarding, sidecarQueue,
                     editorInbox, origin>>
      /\ UNCHANGED <<sidecarVars, envVars, escVars, launcherVars, urlVars, instanceVars>>

\* RoutePush(routeKey, PushRequest) from an editor connection: under the lock
\* the sidecar of the key is looked up; with one, the push_id is tracked with
\* the editor and the request goes on to that connection; without one, the
\* editor is answered FAILED at once.
RoutePush ==
    /\ Len(origin) < MaxRouted
    /\ \E editor \in EditorConns, routeKey \in RouteKeys :
         LET push_id == Len(origin) + 1 IN
           /\ origin' = Append(origin, [editor |-> editor, key |-> routeKey])
           /\ IF Registered(routeKey) # {}
                THEN /\ tracking' = tracking \cup {<<push_id, editor>>}
                     /\ forwarding' = forwarding \cup
                            {<<sidecar, push_id>> : sidecar \in Registered(routeKey)}
                     /\ UNCHANGED editorInbox
                ELSE /\ editorInbox' = editorInbox \cup {Response(editor, push_id, "FAILED")}
                     /\ UNCHANGED <<tracking, forwarding>>
    /\ UNCHANGED <<registry, sidecarOpen, accepted, sidecarQueue>>
    /\ UNCHANGED <<sidecarVars, envVars, escVars, launcherVars, urlVars, instanceVars>>

\* The request is written to the connection that was looked up; the write to
\* a closed connection fails.
ForwardPush ==
    \E m \in forwarding :
      /\ forwarding' = forwarding \ {m}
      /\ sidecarQueue' = IF m[1] \in sidecarOpen THEN sidecarQueue \cup {m} ELSE sidecarQueue
      /\ UNCHANGED <<registry, sidecarOpen, accepted, tracking, editorInbox, origin>>
      /\ UNCHANGED <<sidecarVars, envVars, escVars, launcherVars, urlVars, instanceVars>>

\* Mutant of RouteResponse: the response goes to every editor connection.
RouteResponse_toAll(push_id, status) ==
    IF \E editor \in Editors : <<push_id, editor>> \in tracking
      THEN /\ editorInbox' = editorInbox \cup
                  {Response(editor, push_id, status) : editor \in Editors}
           /\ tracking' = {t \in tracking : t[1] # push_id}
      ELSE UNCHANGED <<editorInbox, tracking>>

\* RouteResponse(PushResponse): under the lock the editor is looked up by
\* push_id; the response is delivered to it and the entry discarded. A
\* response for an unknown push_id is dropped.
RouteResponse(push_id, status) ==
    IF \E editor \in Editors : <<push_id, editor>> \in tracking
      THEN /\ editorInbox' = editorInbox \cup
                  {Response(t[2], push_id, status) : t \in {u \in tracking : u[1] = push_id}}
           /\ tracking' = {t \in tracking : t[1] # push_id}
      ELSE UNCHANGED <<editorInbox, tracking>>

\* A sidecar answers a request it received, and the router routes the answer.
SidecarResponds ==
    \E m \in sidecarQueue, status \in {"COMPLETED", "FAILED"} :
      /\ sidecarQueue' = sidecarQueue \ {m}
      /\ RouteResponse(m[2], status)
      /\ UNCHANGED <<registry, sidecarOpen, accepted, forwarding, origin>>
      /\ UNCHANGED <<sidecarVars, envVars, escVars, launcherVars, urlVars, instanceVars>>

\* No response within the timeout: FAILED to the originating editor, and the
\* tracking entry is released.
ResponseTimeout ==
    \E t \in tracking :
      /\ tracking' = tracking \ {t}
      /\ editorInbox' = editorInbox \cup {Response(t[2], t[1], "FAILED")}
      /\ UNCHANGED <<registry, sidecarOpen, accepted, forwarding, sidecarQueue, origin>>
      /\ UNCHANGED <<sidecarVars, envVars, escVars, launcherVars, urlVars, instanceVars>>

RouterNext ==
    \/ SidecarConnects
    \/ SidecarDisconnects
    \/ UnregisterSidecar
    \/ RoutePush
    \/ ForwardPush
    \/ SidecarResponds
    \/ ResponseTimeout

RouterSpec == Init /\ [][RouterNext]_vars

----------------------------------------------------------------------------
\* Vocabulary of the properties.

\* A stop signal has been raised: the context is cancelled or done is closed.
StopSignal == ctxDone \/ done

\* handlePushRequest has returned for the PUSH_REQUEST in cur.
Handled == (cur.id # 0 \/ cur.nilPayload) /\ cur.returned # "running"

\* The PushResponses handed to the connection for push id.
ResponsesTo(id) == {i \in 1..Len(wire) : wire[i].push_id = id}

\* The last PushResponse handed to the connection.
LastResponse == lastMsg

----------------------------------------------------------------------------
\* C1: every PUSH_REQUEST handed to handlePushRequest gets exactly one
\* PushResponse before the message loop reads the next frame, on every exit
\* path of the handler, and no push_id gets two responses.
C1_ExactlyOneResponse ==
    /\ Handled => cur.responses = 1
    /\ \A id \in 1..MaxPushes : Cardinality(ResponsesTo(id)) <= 1

\* C2: pushes are applied one at a time: at most one rsync runs, and while the
\* rsync of a push runs the response to every earlier push has been sent.
C2_SerializedApplication ==
    /\ Cardinality(rsyncRunning) <= 1
    /\ \A id \in rsyncRunning : \A earlier \in 1..(id - 1) : ResponsesTo(earlier) # {}

\* C3: Stop() is idempotent: a second call never faults, the done channel is
\* closed exactly once.
C3_StopIdempotent == fault # "close of closed channel"

\* C4: whatever the interleaving with the run loop, Stop() never uses a
\* connection reference that the run loop has set to nil.
C4_StopNeverUsesNilConn ==
    \A c \in Callers : stopPc[c] \in {"write_close", "close_conn"} => conn # 0

\* C5: when Stop() returns to its caller, the run loop has observed the stop
\* signal and returned.
C5_StopReturnsAfterRunLoop == stopPc["main"] = "returned" => runPc = "returned"

\* C6: once a stop signal is raised the run loop begins no new dial, and it
\* eventually ends from wherever it is (a dial in progress, a backoff sleep, a
\* blocked read): it returns, or the process has ended in a panic.
C6_StopEndsRunLoop ==
    /\ [][StopSignal => ~(runPc # "dialing" /\ runPc' = "dialing")]_vars
    /\ (StopSignal ~> (runPc = "returned" \/ ~Alive))

\* C6 witness: the run loop returned after a stop signal, having been
\* connected and having handled a push.
C6_Witness == StopSignal /\ Alive /\ runPc = "returned" /\ pushes >= 1

\* C7: without a stop signal the run loop never ends and nothing faults; a
\* failed dial and a lost connection both lead, through the close of the
\* connection and the backoff sleep, to a new dial.
C7_ConnectionLossNotTerminal ==
    /\ [](~StopSignal => Alive /\ runPc # "returned")
    /\ [](runPc = "sleep_lost" => conn = 0 /\ open = {})
    /\ [][runPc' = "dialing" /\ runPc # "dialing" => runPc = "select"]_vars
    /\ [][runPc' = "select" /\ runPc # "select" => runPc \in {"sleep_dial", "sleep_lost"}]_vars
    /\ (runPc \in {"sleep_dial", "close_conn"} ~> (runPc = "dialing" \/ StopSignal))

\* C7 witness: a dial is attempted again after a connection, on which a push
\* was received, was lost with no stop signal raised.
C7_Witness == ~StopSignal /\ runPc = "dialing" /\ pushes >= 1

\* applyRsyncBatch failed in the rsync command: a non-zero exit or the timeout.
RsyncFailed == cur.applyErr \in {"rsync command failed", "rsync command timed out"}

C9_SignalFailure ==
    cur.signalErr # "" =>
        /\ cur.returned = "error" /\ cur.responses = 1
        /\ LastResponse.push_id = cur.id /\ LastResponse.status = "FAILED"
        /\ LastResponse.error_message = <<"Failed to send SIGHUP", cur.signalErr>>
        /\ \A i \in ResponsesTo(cur.id) : wire[i].status # "COMPLETED"
        /\ cur.id \in volume /\ cur.written /\ pushIdFile = cur.id

\* C9 witness: the process lookup failed after the batch of a push was applied.
C9_Witness == cur.signalErr = "find process" /\ Handled

\* C10: a failed database refresh never fails the push: the batch steps still
\* run, and a push without batch, or with a batch whose steps all succeed, is
\* answered COMPLETED.
C10_DatabaseFailureNotFatal ==
    (cur.dbErr # "" /\ Handled) =>
        /\ cur.batch => (cur.applyErr # "" \/ cur.id \in volume)
        /\ (~cur.batch \/ (cur.written /\ cur.signalErr = "")) =>
              /\ cur.returned = "nil" /\ cur.responses = 1
              /\ LastResponse = [push_id |-> cur.id, status |-> "COMPLETED",
                                 error_message |-> <<>>]

\* C10 witness: a push with a batch was completed although its database
\* refresh had failed.
C10_Witness == cur.dbErr # "" /\ cur.batch /\ Handled /\ cur.returned = "nil"

\* The SIGHUPs sent for the push in cur before its batch steps: the one of a
\* successful database refresh.
SignalsBeforeBatch == IF cur.db /\ cur.dbErr = "" THEN 1 ELSE 0

\* The PushResponse COMPLETED for the push in cur.
CompletedFor == [push_id |-> cur.id, status |-> "COMPLETED", error_message |-> <<>>]

\* C11: for a push with a batch whose steps all succeed, the batch is applied
\* first, then push_id is written to .launcher/push_id, then SIGHUP is sent to
\* the launcher, and only then COMPLETED is sent, with the push_id of the
\* request.
C11_OrderOfSteps ==
    /\ [][pushIdFile' # pushIdFile =>
              /\ cur.batch /\ cur.id \in volume /\ cur.id \notin rsyncRunning
              /\ pushIdFile' = cur.id
              /\ cur.signals = SignalsBeforeBatch
              /\ ResponsesTo(cur.id) = {}]_vars
    /\ [][runPc = "signal" /\ cur'.signals = cur.signals + 1 =>
              /\ cur.id \in volume /\ cur.written /\ pushIdFile = cur.id
              /\ ResponsesTo(cur.id) = {}]_vars
    /\ [][wire' # wire /\ cur.batch /\ lastMsg'.status = "COMPLETED" =>
              /\ cur.id \in volume /\ cur.written /\ pushIdFile = cur.id
              /\ cur.signals = SignalsBeforeBatch + 1
              /\ lastMsg' = CompletedFor]_vars
    /\ [](Handled /\ cur.batch /\ cur.applyErr = "" /\ cur.written /\ cur.signalErr = "" =>
              cur.returned = "nil" /\ cur.responses = 1 /\ LastResponse = CompletedFor)

\* C11 witness: a push with a batch and no database updates was applied,
\* recorded, signalled and answered COMPLETED.
C11_Witness ==
    /\ Handled /\ cur.batch /\ ~cur.db /\ cur.returned = "nil"
    /\ cur.id \in volume /\ pushIdFile = cur.id /\ cur.signals = 1
    /\ LastResponse = CompletedFor

\* A PushRequest with empty batch_file, no environment map and no database
\* updates.
EmptyPush == cur.id # 0 /\ ~cur.nilPayload /\ ~cur.batch /\ ~cur.db /\ ~cur.env

\* C12: an empty push is answered COMPLETED, and from its receipt to its
\* response nothing is written: no temporary batch file, no push_id file, no
\* change of the volume, no environment file, and no signal to the launcher.
C12_EmptyPushIsNoOp ==
    /\ [](EmptyPush /\ Handled =>
              /\ cur.returned = "nil" /\ cur.responses = 1
              /\ LastResponse = CompletedFor
              /\ cur.signals = 0 /\ ~cur.written)
    /\ [][EmptyPush' /\ (cur' # cur \/ cur.returned = "running") =>
              /\ UNCHANGED <<tempFiles, rsyncRunning, pushIdFile, volume,
                             dbEnvFile, envFile, envTmp>>
              /\ cur'.signals = 0]_vars

\* C12 witness: an empty push was completed after an earlier push had written
\* its push_id, which is still the content of .launcher/push_id.
C12_Witness == EmptyPush /\ Handled /\ cur.id = 2 /\ pushIdFile = 1 /\ 1 \in volume

\* C13: a push with empty batch_file and a non-empty environment_variables
\* map has, when its handling is over, rewritten the Environment File, sent
\* SIGHUP to the launcher and been answered COMPLETED.
C13_EnvOnlyPush ==
    (cur.id # 0 /\ cur.env /\ ~cur.batch /\ Handled) =>
        /\ envFile.exists /\ envFile.lines # <<>>
        /\ cur.signals >= 1
        /\ cur.responses = 1 /\ LastResponse = CompletedFor

\* C17: every PushResponse handed to the connection carries the push_id of
\* the request being handled, a status of FAILED or COMPLETED, and an
\* error_message that is non-empty exactly when the status is FAILED.
C17_ResponseShape ==
    [][wire' # wire =>
          /\ Len(wire') = Len(wire) + 1
          /\ cur.id # 0 /\ cur.returned = "running"
          /\ lastMsg'.push_id = cur.id
          /\ wire'[Len(wire')] = [push_id |-> cur.id, status |-> lastMsg'.status]
          /\ lastMsg'.status \in {"FAILED", "COMPLETED"}
          /\ (lastMsg'.error_message # <<>>) <=> (lastMsg'.status = "FAILED")]_vars

\* C17 witness: a FAILED and then a COMPLETED response have been sent.
C17_Witness ==
    /\ Len(wire) = 2 /\ wire[1].status = "FAILED" /\ wire[2].status = "COMPLETED"
    /\ LastResponse.error_message = <<>>

\* The Environment File after a complete write of the map of the last call.
NewEnvFile == [exists |-> TRUE, lines |-> EnvContent(emMap)]

\* C14: after a successful UpdateFromPush the Environment File holds exactly
\* one line export KEY=value per entry of the map of that call, in ascending
\* key order, and nothing of an earlier map; a nil or empty map gives an empty
\* file.
C14_EnvFileIsLastMap ==
    (emPc = "returned" /\ emErr = "") =>
        LET lines == envFile.lines IN
          /\ envFile.exists
          /\ Len(lines) = Cardinality(DOMAIN emMap)
          /\ \A i \in 1..Len(lines) :
               /\ SubSeq(lines[i], 1, 2) = <<"export", " ">>
               /\ lines[i][3] \in DOMAIN emMap
               /\ lines[i][4] = "="
               /\ SubSeq(lines[i], 5, Len(lines[i])) = escapeEnvValue(emMap[lines[i][3]])
          /\ \A i, j \in 1..Len(lines) :
               i < j => KeyRank(lines[i][3]) < KeyRank(lines[j][3])

\* C14 witness: a map of one entry has replaced a file of two lines.
C14_Witness ==
    /\ emPc = "returned" /\ emErr = ""
    /\ Len(emPrev.lines) = 2 /\ Len(envFile.lines) = 1

\* C15: the Environment File is replaced in one step: at every moment of
\* UpdateFromPush, and after an interruption or a failure at any statement,
\* the file is the complete previous one or the complete new one; it changes
\* only at the rename, and after a failed call it is the previous one.
C15_AtomicReplace ==
    /\ [](envFile \in {emPrev, NewEnvFile})
    /\ []((emPc = "returned" /\ emErr # "") => envFile = emPrev)
    /\ [][envFile' # envFile =>
              emPc = "rename" /\ emPc' = "returned" /\ envFile' = NewEnvFile]_vars

\* C15 witness: the call was interrupted with the temporary file half
\* written, over an Environment File that has lines.
C15_Witness ==
    /\ emPc = "interrupted"
    /\ envTmp.exists /\ envTmp.lines # EnvContent(emMap)
    /\ envFile.lines # <<>> /\ envFile = emPrev

\* C16: for every value over the alphabet, the shell reading the text of
\* escapeEnvValue as the right-hand side of export KEY=... gets the value.
C16_ShellRoundTrip == escPc = "sourced" => escRead = escValue

\* C18: the launcher never has two application instances alive at once: at
\* most one launched process group exists in every reachable state.
C18_OneInstance == Cardinality(apps) <= 1

\* An instance is launched in this step.
Launch == apps' \ apps # {}

\* C19: every launch of the application (the initial start, a restart after
\* an exit found by the poll loop, a restart after SIGHUP) is preceded by a
\* call of update_files on the way to that start_app.
C19_PromotionBeforeLaunch == [][Launch => Top.promoted]_vars

\* The recorded process group is gone.
RecordedDead == appPgidFile # 0 /\ appPgidFile \notin apps

\* C20: when the recorded process group has died the launcher, as long as it
\* runs, eventually has a fresh instance alive whose pid and pgid are in the
\* record files, after every crash; a new record is always that of an
\* instance started in the same step, under a pid other than the recorded one.
C20_RestartOnCrash ==
    /\ (RecordedDead ~> ((appPgidFile \in apps /\ appPidFile = appPgidFile) \/ ~launcherUp))
    /\ [][appPgidFile' # appPgidFile =>
              /\ Launch /\ appPgidFile' \in apps' \ apps
              /\ appPidFile' = appPgidFile']_vars

\* C20 witness: with no SIGHUP sent, the instance recorded and alive is the
\* third one: the second (pid 2), killed as the previous instance, had
\* itself replaced the first.
C20_Witness == hups = 0 /\ pgid = 2 /\ appPgidFile = 1 /\ apps = {1}

----------------------------------------------------------------------------
\* The action of the TERM/INT trap has begun; it has ended in exit 0.
TermHandling == \E i \in DOMAIN stack : stack[i].ctx = "term"
TermExited == ~launcherUp /\ Top.ctx = "term" /\ Top.pc = "exit"

\* C21: once the launcher has begun to handle SIGTERM or SIGINT no new
\* instance is started, and when it has exited no launched instance is alive.
C21_TerminationKillsAll ==
    /\ [][TermHandling => ~Launch]_vars
    /\ [](TermExited => apps = {})

\* A level of control is inside start_app; it is between the kill of the
\* previous instance and the record of the new one.
InStartApp(frame) ==
    frame.ctx # "term" /\ frame.pc \in {"start_app", "spawn", "started"} \cup KillPcs
Restarting(frame) ==
    frame.ctx # "term" /\ frame.pc \in {"kill_term", "kill_wait", "kill_force", "spawn"}

\* C26: the HUP trap never runs start_app while another start_app, of the
\* poll loop or of an earlier SIGHUP, is between killing the previous instance
\* and recording the new one.
C26_RestartsSerialized ==
    \A i, j \in DOMAIN stack :
        i < j /\ stack[j].ctx = "hup" /\ InStartApp(stack[j]) => ~Restarting(stack[i])

\* C28: in handle_sighup the previous instance is killed and the new one is
\* started only when update_files has returned.
C28_PromotionBeforeRestart ==
    \A i \in DOMAIN stack :
        stack[i].ctx = "hup" /\ InStartApp(stack[i]) => stack[i].promoted

\* C28 witness: a SIGHUP handler, after update_files, has killed the recorded
\* instance and started a new one.
C28_Witness ==
    /\ At("started") /\ Top.ctx = "hup" /\ Top.promoted
    /\ pgid # 0 /\ pgid \notin apps /\ appPgidFile \in apps

\* The wrapped command: the words of the launcher's own command line.
Command == Star(stack[1].args)

\* C29: every instance is started with the wrapped command, whoever calls
\* start_app.
C29_SameCommand == [][Launch => appCmd' = Command]_vars

\* update_files has just failed in handle_sighup.
PromotionFailed == launcherUp /\ Top.ctx = "hup" /\ Top.pc = "shift" /\ Top.failed

\* C30: a failed promotion is followed by another call of update_files, and
\* the launcher with no instance alive goes on to another start_app, as long
\* as it runs.
C30_FailuresRetried ==
    /\ PromotionFailed ~> (At("update_files") \/ ~launcherUp)
    /\ (trapsSet /\ apps = {}) ~> (At("start_app") \/ At("spawn") \/ ~launcherUp)

\* C25: while a push with a batch is handled, SIGHUP is sent to the launcher
\* only when the batch has been applied and the push_id file written.
C25_SignalAfterFileSteps ==
    [][cur.batch /\ cur'.signals > cur.signals =>
           /\ cur.id \in volume /\ cur.id \notin rsyncRunning
           /\ cur.written /\ pushIdFile = cur.id]_vars

\* C27: a COMPLETED response to a push with a batch means that rsync
\* succeeded, the push_id file was written and the SIGHUP after the batch was
\* delivered.
C27_CompletedMeansAllSucceeded ==
    (cur.batch /\ cur.responses >= 1 /\ LastResponse.status = "COMPLETED") =>
        /\ cur.applyErr = "" /\ cur.id \in volume /\ cur.id \notin rsyncRunning
        /\ cur.written /\ pushIdFile = cur.id
        /\ cur.signalErr = "" /\ cur.signals = SignalsBeforeBatch + 1

\* C27 witness: COMPLETED was sent for a push with a batch whose database
\* refresh had failed before.
C27_Witness ==
    /\ cur.batch /\ cur.db /\ cur.dbErr # "" /\ cur.responses = 1
    /\ LastResponse.status = "COMPLETED" /\ cur.signals = 1

\* C24: for every valid apiURL the URL returned has the host and port of the
\* input, scheme wss for https (in any case of letters) and ws otherwise, and
\* the path /api/v1/push/sidecar/<appID>/<deploymentID> alone.
C24_WebSocketURL ==
    wsURL # <<>> =>
        LET out == urlParse(wsURL) IN
          /\ out.Scheme = IF urlParts.scheme \in {"https", "HTTPS"} THEN "wss" ELSE "ws"
          /\ out.Host = IF urlParts.port = "" THEN <<urlParts.host>>
                        ELSE <<urlParts.host, ":", urlParts.port>>
          /\ out.Path = <<"/", "api", "/", "v1", "/", "push", "/", "sidecar", "/",
                          urlParts.appID, "/", urlParts.deploymentID>>
          /\ out.Opaque = <<>>

\* C24 witness: the URL was built from an https URL with a port and a base
\* path.
C24_Witness ==
    /\ wsURL # <<>> /\ urlParts.scheme = "https" /\ urlParts.port # ""
    /\ Len(urlParts.base) = 2
    /\ wsURL[1] = "wss"

\* The sidecar connections that were registered and are no longer.
Replaced == {c \in 1..accepted : \A routeKey \in RouteKeys : <<routeKey, c>> \notin registry}

\* C22: at most one sidecar connection is registered per route key in every
\* state; a registration for a key that has one closes and replaces it, and
\* no message is delivered to a replaced connection.
C22_OneSidecarPerKey ==
    /\ [](\A routeKey \in RouteKeys : Cardinality(Registered(routeKey)) <= 1)
    /\ [](\A sidecar \in Replaced : sidecar \notin sidecarOpen)
    /\ [][\A m \in sidecarQueue' \ sidecarQueue :
            m[1] \notin Replaced' /\ Registered(origin[m[2]].key)' = {m[1]}]_vars

\* C22 witness: a push was looked up for the first connection, a second
\* connection replaced the first under the same key, and the second has
\* received a push.
C22_Witness ==
    /\ <<1, 1>> \in forwarding
    /\ 1 \in Replaced
    /\ Registered(origin[1].key) = {2}
    /\ <<2, 2>> \in sidecarQueue

\* C23: a response is delivered only to the editor connection that sent its
\* push_id; a push for a key without registered sidecar is answered FAILED in
\* the step that routes it and is forwarded to no sidecar; a push goes only
\* to the connection its key had at the lookup.
C23_ResponseCorrelation ==
    /\ [](\A m \in editorInbox :
            m.push_id \in DOMAIN origin /\ origin[m.push_id].editor = m.editor)
    /\ [][Len(origin') > Len(origin) /\ Registered(origin'[Len(origin')].key) = {} =>
            LET push_id == Len(origin') IN
              /\ Response(origin'[push_id].editor, push_id, "FAILED") \in editorInbox'
              /\ \A sidecar \in SidecarConns : <<sidecar, push_id>> \notin forwarding'
              /\ \A editor \in Editors : <<push_id, editor>> \notin tracking']_vars
    /\ [][\A m \in forwarding' \ forwarding : Registered(origin'[m[2]].key) = {m[1]}]_vars
    /\ [][\A m \in sidecarQueue' \ sidecarQueue : m \in forwarding]_vars

\* C23 witness: two editors have pushes outstanding at once, the second push
\* is answered COMPLETED to the second editor while the first is tracked.
C23_Witness ==
    /\ Response(2, 2, "COMPLETED") \in editorInbox
    /\ <<1, 1>> \in tracking
    /\ origin[1].editor = 1

\* C37: the handling of one PushRequest sends at most one restart signal to
\* the launcher, whatever the request carries.
C37_OneSignalPerPush == cur.signals <= 1

\* The positions of the run goroutine inside messageLoop and the handling of
\* a message.
MessageLoopPcs ==
    {"ml_select", "reading", "database", "apply", "batch_file", "rsync", "push_id",
     "signal", "complete"}

\* The message loop returns from where it may: its select with a stop signal
\* ready, or a failed read.
MessageLoopReturns ==
    \/ runPc = "ml_select" /\ StopSignal
    \/ runPc = "reading" /\ ReadError

\* C35: a frame that handleMessage rejects or ignores leaves the connection
\* as it is and the message loop running; the message loop ends only by a
\* read error or at its select with a stop signal.
C35_UnhandledFrameKeepsLoop ==
    /\ [][ReadOtherFrame \/ ReadNilPush =>
            runPc' = "ml_select" /\ conn' = conn /\ open' = open]_vars
    /\ [][(runPc \in MessageLoopPcs /\ runPc' \notin MessageLoopPcs) =>
            MessageLoopReturns]_vars

\* C35 witness: after a frame that handleMessage rejected, the message loop
\* is at its select again with the connection open, a push having been
\* handled on it before.
C35_Witness ==
    /\ runPc = "ml_select" /\ cur.id = 0 /\ ~cur.nilPayload /\ cur.returned = "error"
    /\ conn \in open /\ ~StopSignal /\ pushes >= 1

\* C39: at most one connection is open at any time; the run loop dials only
\* with the previous connection closed and rw.conn nil; rw.conn is non-nil
\* only from a successful dial to the end of its message loop and the close
\* that follows; when the run loop has returned no connection is open.
C39_OneConnection ==
    /\ Cardinality(open) <= 1
    /\ open \subseteq {conn}
    /\ runPc = "dialing" => conn = 0 /\ open = {}
    /\ conn # 0 => runPc \in MessageLoopPcs \cup {"close_conn", "clear_conn"}
    /\ runPc = "returned" => conn = 0 /\ open = {}

\* C39 witness: the run loop has returned on a stop signal after its second
\* connection.
C39_Witness ==
    /\ runPc = "returned" /\ StopSignal /\ Alive
    /\ pushes >= 1 /\ open = {} /\ conn = 0

\* C36: outside applyRsyncBatch no temporary batch file exists in .sidecar:
\* the file it creates is gone when it returns, whatever the outcome, and
\* none is left over from an earlier push.
C36_TempFileRemoved ==
    /\ tempFiles <= 1
    /\ runPc \notin {"batch_file", "rsync"} => tempFiles = 0

\* C36 witness: the second push with a batch has been handled, the write of
\* its batch or its rsync having failed, and no temporary file is left.
C36_Witness ==
    /\ pushes = 2 /\ Handled /\ cur.batch /\ cur.id = 2
    /\ cur.applyErr \in {"write to temporary batch file", "rsync command timed out"}
    /\ tempFiles = 0

\* C38: no PushResponse is handed to conn.WriteMessage by the run goroutine
\* while the goroutine that called Stop() is inside conn.WriteMessage with
\* its close frame.
C38_OneWriter == [][wire' # wire => stopPc["main"] # "writing_close"]_vars

\* C33: launcher.pid is written, the traps are installed and an instance is
\* started only with both .sidecar and .launcher present; and once they are
\* present the application gets started with no SIGHUP sent.
C33_WaitsForControlDirs ==
    /\ []((launcherPid \/ trapsSet \/ appPidFile # 0 \/ apps # {} \/ Top.pc # "wait_dirs")
            => dirs = {".sidecar", ".launcher"})
    /\ (dirs = {".sidecar", ".launcher"} ~> (appPidFile # 0 \/ hups > 0))

\* C33 witness: the first instance runs, started by the main loop, and no
\* SIGHUP was ever sent.
C33_Witness ==
    /\ hups = 0 /\ Len(stack) = 1 /\ At("started")
    /\ apps = {1} /\ appPidFile = 1 /\ launcherPid /\ trapsSet

\* C34: a poll that finds a record file missing or the recorded group dead
\* goes on to start_app; and an instance started with no SIGHUP ever sent
\* (by the poll loop, then) has no earlier instance alive next to it.
C34_MissingRecordMeansNoProcess ==
    /\ [][(PollCheck /\ (appPidFile = 0 \/ appPgidFile = 0 \/ appPgidFile \notin apps))
            => Top'.pc = "start_app"]_vars
    /\ [][(Launch /\ hups = 0) => apps = {}]_vars

\* C32: the Environment File that UpdateFromPush wrote is what the launcher
\* sources: when start_app runs for a restart (from handle_sighup) after a
\* call of UpdateFromPush has returned nil with variables, the environment
\* the instance is started in holds exactly the export lines of that file.
C32_LauncherSourcesEnvFile ==
    [][(/\ start_app
        /\ Top.ctx = "hup"
        /\ emPc = "returned" /\ emErr = ""
        /\ envFile.exists /\ envFile.lines # <<>>)
       => shellEnv' = {envFile.lines[i] : i \in DOMAIN envFile.lines}]_vars

\* C31: the instance that handle_sighup starts for the SIGHUP sent after the
\* batch of push P was applied runs with BIFROST_PUSH_ID equal to P's push_id.
C31_InstanceRunsWithPushId ==
    [][(Launch /\ Top.ctx = "hup" /\ answering # 0 /\ answering \in volume)
       => pushIdEnv = answering]_vars

====
